---- MODULE Spec2Model ----
(***************************************************************************)
(* Navigation and persistence engine of the training single page app       *)
(* (src/app.js, class TrainingApp and the popstate handler).               *)
(*                                                                         *)
(* The app is single threaded: every handler runs to its next await.  An   *)
(* awaited fetch is an entry of `inflight`; it resolves (or rejects) in a  *)
(* later step, in any order with respect to the other pending fetches.     *)
(* `fetch(...)` followed by `response.json()` is one pending entry: no     *)
(* field of the app is touched between the two.  A continuation that       *)
(* follows an await of an already settled promise (a cache hit, a          *)
(* synchronous throw inside an async method) runs in the microtasks of     *)
(* the same task, and is part of the same step.                            *)
(***************************************************************************)
EXTENDS Integers, Sequences, FiniteSets, Bags, TLC

(***************************************************************************)
(* Bounds of the model.                                                    *)
(***************************************************************************)
MaxCalls == 2       \* handler calls (user and browser events) after startup
MaxInflight == 2    \* fetches pending at the same time
MaxIdLen == 2       \* characters of a program id built into a hash text
MaxPageIndex == 10  \* page indices built into a hash text
MaxPageLen == 2     \* characters of the page component of a typed hash
MaxModules == 3     \* modules of a manifest whose order values repeat

(***************************************************************************)
(* The served files: programs.json, one manifest per program, the content  *)
(* files of each program directory.                                        *)
(***************************************************************************)
Null == "null"      \* JavaScript null / undefined where a string is expected

Catalog ==
    << [id |-> "A", manifest |-> <<"programs", "A", "manifest.json">>],
       [id |-> "B", manifest |-> <<"programs", "B", "manifest.json">>],
       [id |-> "E", manifest |-> <<"programs", "E", "manifest.json">>] >>

ProgramIds == {Catalog[k].id : k \in DOMAIN Catalog}

\* The module arrays as the manifests list them (before sorting); the manifest
\* of program E lists no module.
ServerManifest(path) ==
    IF path = <<"programs", "A", "manifest.json">>
    THEN << [id |-> "m2", order |-> 2, file |-> "content/two.json"],
            [id |-> "m1", order |-> 1, file |-> "content/one.json"] >>
    ELSE IF path = <<"programs", "B", "manifest.json">>
    THEN << [id |-> "m1", order |-> 1, file |-> "content/two.json"] >>
    ELSE << >>

ManifestPaths == {Catalog[k].manifest : k \in DOMAIN Catalog}

\* The content files that exist on the server.
ServerContent ==
    { <<"programs", "A", "content/one.json">>, <<"programs", "A", "content/two.json">>,
      <<"programs", "B", "content/two.json">> }

(***************************************************************************)
(* Pure helpers of the class.                                              *)
(***************************************************************************)
Truthy(s) == s # Null /\ s # ""

Min(a, b) == IF a < b THEN a ELSE b
Max(a, b) == IF a > b THEN a ELSE b

\* programs.programs.find(p => p.id === programId): the descriptor, or <<>>.
FindProgram(programId) ==
    LET ks == {k \in DOMAIN Catalog : Catalog[k].id = programId}
    IN  IF ks = {} THEN << >>
        ELSE << Catalog[CHOOSE k \in ks : \A j \in ks : k <= j] >>

\* Variant of the sort that places a module before the modules of equal order.
RECURSIVE InsertByOrder_BeforeEqual(_, _)
InsertByOrder_BeforeEqual(sorted, m) ==
    IF sorted = << >> THEN << m >>
    ELSE IF sorted[Len(sorted)].order < m.order THEN Append(sorted, m)
    ELSE Append(InsertByOrder_BeforeEqual(SubSeq(sorted, 1, Len(sorted) - 1), m),
                sorted[Len(sorted)])

\* Array.prototype.sort((a, b) => a.order - b.order): stable, ascending.
RECURSIVE InsertByOrder(_, _)
InsertByOrder(sorted, m) ==
    IF sorted = << >> THEN << m >>
    ELSE IF sorted[Len(sorted)].order <= m.order THEN Append(sorted, m)
    ELSE Append(InsertByOrder(SubSeq(sorted, 1, Len(sorted) - 1), m),
                sorted[Len(sorted)])

RECURSIVE SortByOrder(_)
SortByOrder(ms) ==
    IF ms = << >> THEN << >>
    ELSE InsertByOrder(SortByOrder(SubSeq(ms, 1, Len(ms) - 1)), ms[Len(ms)])

\* this.currentProgram.manifest.replace('/manifest.json', '')
ProgramDir(manifestPath) ==
    IF Len(manifestPath) > 1 /\ manifestPath[Len(manifestPath)] = "manifest.json"
    THEN SubSeq(manifestPath, 1, Len(manifestPath) - 1)
    ELSE manifestPath

ContentPath(program, module) == Append(ProgramDir(program.manifest), module.file)

CacheKey(program, module) == << program.id, module.id >>

\* Variant of the clamp without its upper bound.
SafePageIndex_NoUpperBound(pageIndex, moduleCount) == Max(pageIndex, 0)

\* Math.min(Math.max(pageIndex, 0), Math.max(this.modules.length - 1, 0))
SafePageIndex(pageIndex, moduleCount) ==
    Min(Max(pageIndex, 0), Max(moduleCount - 1, 0))

(***************************************************************************)
(* URL hash, history payloads and the stored snapshot.                     *)
(*                                                                         *)
(* A hash is "" (kind "empty"), the legacy "#page-N" (kind "legacy") or a  *)
(* query string "#program=..&page=.." (kind "params").  A page component   *)
(* is absent (<< >>) or a text << t >>; t.num tells whether parseInt reads *)
(* a number from it, t.val is that number.  An optional integer (a value   *)
(* that may be null) is << >> or << n >>.                                  *)
(***************************************************************************)
HashEmpty == [kind |-> "empty", program |-> Null, page |-> << >>]

PageText(n) == [num |-> TRUE, val |-> n]

\* parseInt(text, 10): << n >>, or << >> for NaN.
ParseInt(t) == IF t.num THEN << t.val >> ELSE << >>

\* Variant of getStateFromHash that reads the legacy page number as an index.
GetStateFromHash_LegacyAsIndex(hash) ==
    IF hash.kind = "legacy"
    THEN [programId |-> Null, pageIndex |-> ParseInt(hash.page[1])]
    ELSE IF hash.kind = "empty"
    THEN [programId |-> Null, pageIndex |-> << >>]
    ELSE LET parsed == IF hash.page = << >> THEN << >> ELSE ParseInt(hash.page[1])
         IN  [programId |-> IF Truthy(hash.program) THEN hash.program ELSE Null,
              pageIndex |-> IF parsed = << >> THEN << >> ELSE << parsed[1] - 1 >>]

\* getStateFromHash(), on window.location.hash.
GetStateFromHash(hash) ==
    IF hash.kind = "legacy"
    THEN [programId |-> Null, pageIndex |-> << ParseInt(hash.page[1])[1] - 1 >>]
    ELSE IF hash.kind = "empty"
    THEN [programId |-> Null, pageIndex |-> << >>]
    ELSE LET parsed == IF hash.page = << >> THEN << >> ELSE ParseInt(hash.page[1])
         IN  [programId |-> IF Truthy(hash.program) THEN hash.program ELSE Null,
              pageIndex |-> IF parsed = << >> THEN << >> ELSE << parsed[1] - 1 >>]

\* buildHash(programId, pageIndex), read back through window.location.hash
\* ("#" alone reads back as "").
BuildHash(programId, pageIndex) ==
    IF ~Truthy(programId) /\ pageIndex = << >> THEN HashEmpty
    ELSE [kind |-> "params",
          program |-> IF Truthy(programId) THEN programId ELSE Null,
          page |-> IF pageIndex = << >> THEN << >>
                   ELSE << PageText(pageIndex[1] + 1) >>]

\* The history payloads: null, { dashboard: true }, { programId, page }.
StateNull == [kind |-> "null", programId |-> Null, page |-> 0]
StateDashboard == [kind |-> "dashboard", programId |-> Null, page |-> 0]
StatePage(programId, page) == [kind |-> "page", programId |-> programId, page |-> page]

\* localStorage item 'trainingAppState': absent, text JSON.parse rejects, the
\* text null, or the object stored.
StoredAbsent == [kind |-> "absent", programId |-> Null, pageIndex |-> << >>]
StoredCorrupt == [kind |-> "corrupt", programId |-> Null, pageIndex |-> << >>]
StoredNull == [kind |-> "null", programId |-> Null, pageIndex |-> << >>]
\* an object whose programId is not a string and whose pageIndex is no integer
StoredMistyped == [kind |-> "mistyped", programId |-> Null, pageIndex |-> << >>]
StoredObject(programId, pageIndex) ==
    [kind |-> "object", programId |-> programId, pageIndex |-> pageIndex]

\* Variant of getStoredState that does not read the page index.
GetStoredState_DropsPage(item) ==
    IF item.kind = "object"
    THEN [programId |-> item.programId, pageIndex |-> << >>]
    ELSE [programId |-> Null, pageIndex |-> << >>]

\* getStoredState()
GetStoredState(item) ==
    IF item.kind = "object"
    THEN [programId |-> item.programId, pageIndex |-> item.pageIndex]
    ELSE [programId |-> Null, pageIndex |-> << >>]

(***************************************************************************)
(* The progress map as JSON: null, a number, or an object with fields.     *)
(***************************************************************************)
JsonNull == [kind |-> "null", fields |-> << >>]
JsonNumber == [kind |-> "number", fields |-> << >>]
JsonObject(fields) == [kind |-> "object", fields |-> fields]
EmptyObject == JsonObject(<< >>)

\* obj[key], as << value >>, or << >> for undefined
Field(obj, key) ==
    IF obj.kind = "object" /\ key \in DOMAIN obj.fields
    THEN << obj.fields[key] >> ELSE << >>

\* obj[key] = value
SetField(obj, key, value) ==
    JsonObject([k \in DOMAIN obj.fields \cup {key} |->
                   IF k = key THEN value ELSE obj.fields[k]])

\* Variant of the delete that leaves the key in place, with null.
DeleteField_SetsNull(obj, key) ==
    JsonObject([k \in DOMAIN obj.fields |->
                   IF k = key THEN JsonNull ELSE obj.fields[k]])

\* delete obj[key]
DeleteField(obj, key) ==
    JsonObject([k \in DOMAIN obj.fields \ {key} |-> obj.fields[k]])

\* Date.now() in this session; records of earlier sessions carry 0.
DateNow == 1

\* { completed, lastVisited }
ProgressRecord(completed, lastVisited) ==
    JsonObject([completed |-> completed, lastVisited |-> lastVisited])

\* m.completed is truthy, for a value m that is not null
Completed(m) ==
    /\ m.kind = "object"
    /\ "completed" \in DOMAIN m.fields
    /\ m.fields["completed"] = TRUE

\* localStorage item 'trainingProgress': absent, text JSON.parse rejects, or
\* the text of a JSON value.
ProgressAbsent == [kind |-> "absent", value |-> JsonNull]
ProgressCorrupt == [kind |-> "corrupt", value |-> JsonNull]
ProgressJson(value) == [kind |-> "json", value |-> value]

\* loadProgress()
LoadProgress(item) == IF item.kind = "json" THEN item.value ELSE EmptyObject

\* isModuleComplete(programId, moduleId), for a progress map that is not null
IsModuleComplete(progress, programId, moduleId) ==
    LET p == Field(progress, programId)
    IN  /\ p # << >>
        /\ LET m == Field(p[1], moduleId)
           IN  m # << >> /\ Completed(m[1])

\* Math.round(completed / total * 100), total > 0
RoundedPercentage(completed, total) == (200 * completed + total) \div (2 * total)

NoProgress == [completed |-> 0, total |-> 0, percentage |-> 0]

\* getProgramProgressWithManifest(programId) for a catalog program whose
\* manifest fetch succeeds (available) or fails: a TypeError of the count
\* (this.progress is null, or a module entry is null) is caught like a failed
\* fetch.
GetProgramProgressWithManifest(progress, program, available) ==
    IF ~available \/ progress.kind = "null" THEN NoProgress
    ELSE LET totalModules == Len(ServerManifest(program.manifest))
             entry == Field(progress, program.id)
             programProgress == IF entry = << >> \/ entry[1].kind = "null"
                                THEN EmptyObject ELSE entry[1]
             values == programProgress.fields
         IN  IF \E k \in DOMAIN values : values[k].kind = "null" THEN NoProgress
             ELSE LET completedCount ==
                          Cardinality({k \in DOMAIN values : Completed(values[k])})
                  IN  [completed |-> completedCount, total |-> totalModules,
                       percentage |-> IF totalModules > 0
                                      THEN RoundedPercentage(completedCount,
                                                             totalModules)
                                      ELSE 0]

(***************************************************************************)
(* The state.                                                              *)
(***************************************************************************)
VARIABLES
    programs,          \* TRUE once programs.json is loaded (this.programs)
    currentProgram,    \* << >> (null) or << descriptor >>
    modules,           \* this.modules
    contentCache,      \* this.contentCache: cache key -> page content
    currentPageIndex,  \* this.currentPageIndex
    contentArea,       \* what this.contentArea shows
    history,           \* the session history: entries [state, url]
    histIdx,           \* the current entry of the session history
    stored,            \* localStorage item 'trainingAppState'
    progress,          \* this.progress
    progressItem,      \* localStorage item 'trainingProgress'
    storageFull,       \* TRUE when localStorage.setItem throws
    inflight,          \* bag of the pending fetches, each with its continuation
    lastOp,            \* the handler or continuation that ran last, with its outcome
    lastPage,          \* the outcome of loadPage in that step, or "none"
    calls,             \* how many handler calls the run has made so far
    codec              \* the value a conversion is applied to (SpecCodec, SpecTyped,
                       \* SpecManifest)

vars == << programs, currentProgram, modules, contentCache, currentPageIndex,
           contentArea, history, histIdx, stored, progress, progressItem,
           storageFull, inflight, lastOp, lastPage, calls, codec >>

\* The state as one record; the handlers below are functions on it.
Cur ==
    [programs |-> programs, currentProgram |-> currentProgram, modules |-> modules,
     contentCache |-> contentCache, currentPageIndex |-> currentPageIndex,
     contentArea |-> contentArea, history |-> history, histIdx |-> histIdx,
     stored |-> stored, progress |-> progress, progressItem |-> progressItem,
     storageFull |-> storageFull, inflight |-> inflight, lastOp |-> lastOp,
     lastPage |-> lastPage]

Becomes(st) ==
    /\ programs' = st.programs
    /\ currentProgram' = st.currentProgram
    /\ modules' = st.modules
    /\ contentCache' = st.contentCache
    /\ currentPageIndex' = st.currentPageIndex
    /\ contentArea' = st.contentArea
    /\ history' = st.history
    /\ histIdx' = st.histIdx
    /\ stored' = st.stored
    /\ progress' = st.progress
    /\ progressItem' = st.progressItem
    /\ storageFull' = st.storageFull
    /\ inflight' = st.inflight
    /\ lastOp' = st.lastOp
    /\ lastPage' = st.lastPage

\* window.location.hash
LocationHash(st) == st.history[st.histIdx].url

View(view, content) == [view |-> view, content |-> content]

\* The navigation state and its mirrors when a call was made: a pending
\* switchProgram keeps all of it, a pending loadPage the page index, for the
\* properties that compare the state after a failure with the one before.
Snapshot(st) ==
    [currentProgram |-> st.currentProgram, modules |-> st.modules,
     currentPageIndex |-> st.currentPageIndex, history |-> st.history,
     histIdx |-> st.histIdx, stored |-> st.stored]

PageSnapshot(st) ==
    [currentProgram |-> << >>, modules |-> << >>,
     currentPageIndex |-> st.currentPageIndex, history |-> << >>,
     histIdx |-> 0, stored |-> StoredAbsent]

NoSnapshot == PageSnapshot([currentPageIndex |-> 0])

\* A pending fetch: what was asked for, and the locals its continuation uses.
Request(kind, program, pageIndex, key, path, origin, pre) ==
    [kind |-> kind, program |-> program, pageIndex |-> pageIndex, key |-> key,
     path |-> path, origin |-> origin, pre |-> pre]

Await(st, r) == [st EXCEPT !.inflight = @ (+) SetToBag({r})]
Settle(st, r) == [st EXCEPT !.inflight = @ (-) SetToBag({r})]
Pending == BagToSet(inflight)
PendingCount == BagCardinality(inflight)

Done(st, op) == [st EXCEPT !.lastOp = op]

(***************************************************************************)
(* State publication.                                                      *)
(***************************************************************************)
\* history.pushState(state, '', url)
PushState(st, state, url) ==
    [st EXCEPT !.history = Append(SubSeq(@, 1, st.histIdx),
                                  [state |-> state, url |-> url]),
               !.histIdx = @ + 1]

\* storeState(programId, pageIndex)
StoreState(st, programId, pageIndex) ==
    IF st.storageFull THEN st
    ELSE [st EXCEPT !.stored =
             StoredObject(IF Truthy(programId) THEN programId ELSE Null,
                          IF pageIndex = << >> THEN << 0 >> ELSE pageIndex)]

\* showError(message)
ShowError(st) == [st EXCEPT !.contentArea = View("error", << >>)]

(***************************************************************************)
(* Content cache and page loading.                                         *)
(***************************************************************************)
\* The JSON a content path serves.
ServerFile(path) == [from |-> path]

\* this.contentCache.set(cacheKey, content)
CachePut(cache, key, content) ==
    [k \in DOMAIN cache \cup {key} |-> IF k = key THEN content ELSE cache[k]]

\* loadPage after `await this.loadPageContent(index)` has returned `content`:
\* renderPageContent reads this.currentProgram.manifest, renderInlineNavigation
\* reads this.modules[this.currentPageIndex].id and asks isModuleComplete,
\* which reads this.progress[programId]; each throws a TypeError when the
\* object is missing or null, and the catch block shows the error.  Otherwise
\* the page is shown and the state published.
RenderAndPublish(st, index, content) ==
    IF \/ st.currentProgram = << >>
       \/ st.currentPageIndex >= Len(st.modules)
       \/ st.progress.kind = "null"
    THEN [ShowError(st) EXCEPT !.lastPage = "renderFailed"]
    ELSE LET id == st.currentProgram[1].id
             shown == [st EXCEPT !.contentArea = View("page", << content >>),
                                 !.lastPage = "published"]
         IN  StoreState(PushState(shown, StatePage(id, index),
                                  BuildHash(id, << index >>)),
                        id, << index >>)

\* Variant of loadPageContent that publishes the page before its fetch.
LoadPageContent_PublishesFirst(st, index, pre) ==
    IF st.currentProgram = << >>
    THEN [ShowError(st) EXCEPT !.lastPage = "threw"]
    ELSE LET module == st.modules[index + 1]
             cacheKey == CacheKey(st.currentProgram[1], module)
             contentPath == ContentPath(st.currentProgram[1], module)
             id == st.currentProgram[1].id
         IN  IF cacheKey \in DOMAIN st.contentCache
             THEN RenderAndPublish(st, index, st.contentCache[cacheKey])
             ELSE Await([StoreState(PushState(st, StatePage(id, index),
                                              BuildHash(id, << index >>)),
                                    id, << index >>)
                            EXCEPT !.lastPage = "fetching"],
                        Request("content", st.currentProgram, index, cacheKey,
                                contentPath, "loadPage", pre))

\* Variant of loadPageContent without the cache lookup.
LoadPageContent_NoCacheCheck(st, index, pre) ==
    IF st.currentProgram = << >>
    THEN [ShowError(st) EXCEPT !.lastPage = "threw"]
    ELSE LET module == st.modules[index + 1]
         IN  Await([st EXCEPT !.lastPage = "fetching"],
                   Request("content", st.currentProgram, index,
                           CacheKey(st.currentProgram[1], module),
                           ContentPath(st.currentProgram[1], module),
                           "loadPage", pre))

\* Variant of loadPageContent that also fetches the page after the one asked
\* for.
LoadPageContent_PrefetchesNext(st, index, pre) ==
    IF st.currentProgram = << >>
    THEN [ShowError(st) EXCEPT !.lastPage = "threw"]
    ELSE LET module == st.modules[index + 1]
             cacheKey == CacheKey(st.currentProgram[1], module)
             contentPath == ContentPath(st.currentProgram[1], module)
             s1 == IF index + 1 < Len(st.modules)
                   THEN Await(st, Request("content", st.currentProgram, index + 1,
                                          CacheKey(st.currentProgram[1],
                                                   st.modules[index + 2]),
                                          ContentPath(st.currentProgram[1],
                                                      st.modules[index + 2]),
                                          "loadPage", pre))
                   ELSE st
         IN  IF cacheKey \in DOMAIN st.contentCache
             THEN RenderAndPublish(st, index, st.contentCache[cacheKey])
             ELSE Await([s1 EXCEPT !.lastPage = "fetching"],
                        Request("content", st.currentProgram, index, cacheKey,
                                contentPath, "loadPage", pre))

\* Variant of loadPageContent that joins a fetch already pending for the key.
LoadPageContent_JoinsPending(st, index, pre) ==
    IF st.currentProgram = << >>
    THEN [ShowError(st) EXCEPT !.lastPage = "threw"]
    ELSE LET module == st.modules[index + 1]
             cacheKey == CacheKey(st.currentProgram[1], module)
             contentPath == ContentPath(st.currentProgram[1], module)
         IN  IF cacheKey \in DOMAIN st.contentCache
             THEN RenderAndPublish(st, index, st.contentCache[cacheKey])
             ELSE IF \E r \in BagToSet(st.inflight) :
                         r.kind = "content" /\ r.key = cacheKey
             THEN [st EXCEPT !.lastPage = "fetching"]
             ELSE Await([st EXCEPT !.lastPage = "fetching"],
                        Request("content", st.currentProgram, index, cacheKey,
                                contentPath, "loadPage", pre))

\* loadPageContent(moduleIndex), called by loadPage, up to its pending fetch.
\* It throws at this.currentProgram.id when no program is current (loadPage
\* shows the error); a cached page is returned without a fetch.
LoadPageContent(st, index, pre) ==
    IF st.currentProgram = << >>
    THEN [ShowError(st) EXCEPT !.lastPage = "threw"]
    ELSE LET module == st.modules[index + 1]
             cacheKey == CacheKey(st.currentProgram[1], module)
             contentPath == ContentPath(st.currentProgram[1], module)
         IN  IF cacheKey \in DOMAIN st.contentCache
             THEN RenderAndPublish(st, index, st.contentCache[cacheKey])
             ELSE Await([st EXCEPT !.lastPage = "fetching"],
                        Request("content", st.currentProgram, index, cacheKey,
                                contentPath, "loadPage", pre))

\* Variant of loadPage that assigns the page index before the range check.
LoadPage_AssignsBeforeCheck(st, index) ==
    IF index < 0 \/ index >= Len(st.modules)
    THEN [st EXCEPT !.currentPageIndex = index, !.lastPage = "ignored"]
    ELSE LoadPageContent([st EXCEPT !.currentPageIndex = index,
                                   !.contentArea = View("loading", << >>)],
                         index, PageSnapshot(st))

\* loadPage(index), up to its first pending fetch.
LoadPage(st, index) ==
    IF index < 0 \/ index >= Len(st.modules)
    THEN [st EXCEPT !.lastPage = "ignored"]
    ELSE LoadPageContent([st EXCEPT !.currentPageIndex = index,
                                   !.contentArea = View("loading", << >>)],
                         index, PageSnapshot(st))

\* The content fetch of r answered with the file: it is cached under the key
\* computed when the fetch was issued, then loadPage goes on.
ContentLoaded(st, r) ==
    LET content == ServerFile(r.path)
        cached == [Settle(st, r) EXCEPT
                       !.contentCache = CachePut(@, r.key, content)]
    IN  RenderAndPublish(cached, r.pageIndex, content)

\* Variant of the failure path that leaves an entry in the cache.
ContentFailed_CachesError(st, r) ==
    [ShowError(Settle(st, r)) EXCEPT
        !.contentCache = CachePut(@, r.key, ServerFile(<< >>)),
        !.lastPage = "failed"]

\* Variant of the failure path that fetches the file again.
ContentFailed_Retries(st, r) == Await(Settle(st, r), r)

\* The content fetch of r failed (network error, !response.ok, bad JSON):
\* loadPageContent rethrows, loadPage shows the error.
ContentFailed(st, r) ==
    [ShowError(Settle(st, r)) EXCEPT !.lastPage = "failed"]

(***************************************************************************)
(* Program switch.                                                         *)
(***************************************************************************)
\* Variant of switchProgram that assigns this.currentProgram before it checks
\* that the program was found.
SwitchProgram_AssignsBeforeCheck(st, programId, pageIndex, origin) ==
    IF ~st.programs THEN Done(st, "switchProgram.threw")
    ELSE LET program == FindProgram(programId)
         IN  IF program = << >>
             THEN Done([st EXCEPT !.currentProgram = << >>], "switchProgram.unknown")
             ELSE Await(Done([st EXCEPT !.currentProgram = program],
                             "switchProgram.loading"),
                        Request("manifest", program, pageIndex, << >>,
                                program[1].manifest, origin, Snapshot(st)))

\* Variant of switchProgram that keeps the modules of a program that is
\* already loaded.
SwitchProgram_KeepsLoaded(st, programId, pageIndex, origin) ==
    IF ~st.programs THEN Done(st, "switchProgram.threw")
    ELSE LET program == FindProgram(programId)
         IN  IF program = << >> THEN Done(st, "switchProgram.unknown")
             ELSE IF st.currentProgram = program /\ st.modules # << >>
             THEN Done(LoadPage(st, SafePageIndex(pageIndex, Len(st.modules))),
                       "switchProgram.kept")
             ELSE Await(Done([st EXCEPT !.currentProgram = program],
                             "switchProgram.loading"),
                        Request("manifest", program, pageIndex, << >>,
                                program[1].manifest, origin, Snapshot(st)))

\* switchProgram(programId, pageIndex), up to `await this.loadManifest(..)`.
\* With this.programs still null the find throws before anything is set.
SwitchProgram(st, programId, pageIndex, origin) ==
    IF ~st.programs THEN Done(st, "switchProgram.threw")
    ELSE LET program == FindProgram(programId)
         IN  IF program = << >> THEN Done(st, "switchProgram.unknown")
             ELSE Await(Done([st EXCEPT !.currentProgram = program],
                             "switchProgram.loading"),
                        Request("manifest", program, pageIndex, << >>,
                                program[1].manifest, origin, Snapshot(st)))

\* A rejection of switchProgram: init() catches it and shows the error, the
\* event handlers do not await it.
SwitchRejected(st, r, op) ==
    Done(IF r.origin = "init" THEN ShowError(st) ELSE st, op)

\* The manifest fetch of r answered: loadManifest sorts the modules,
\* renderNavigation asks isModuleComplete(this.currentProgram.id, module.id)
\* for every module (a TypeError when no program is current or this.progress
\* is null), then the clamped page is loaded.
ManifestLoadedWith(st, r, served) ==
    LET s1 == [Settle(st, r) EXCEPT !.modules = SortByOrder(served),
                                    !.lastPage = "none"]
    IN  IF s1.modules # << >> /\ (s1.currentProgram = << >> \/ s1.progress.kind = "null")
        THEN SwitchRejected(s1, r, "manifest.renderThrew")
        ELSE LET safePageIndex == SafePageIndex(r.pageIndex, Len(s1.modules))
             IN  Done(LoadPage(s1, safePageIndex),
                      IF safePageIndex = r.pageIndex THEN "manifest.loaded"
                      ELSE "manifest.clamped")

\* The answer is the manifest the server holds at the path.
ManifestLoaded(st, r) == ManifestLoadedWith(st, r, ServerManifest(r.path))

\* The manifest fetch of r failed: loadManifest rethrows.
ManifestFailed(st, r) ==
    SwitchRejected([Settle(st, r) EXCEPT !.lastPage = "none"], r, "manifest.failed")

(***************************************************************************)
(* Dashboard.                                                              *)
(***************************************************************************)
\* Variant of showDashboard that renders without reading the catalog.
ShowDashboard_WithoutCatalog(st) ==
    LET s1 == [st EXCEPT !.currentProgram = << >>, !.modules = << >>,
                         !.contentArea = View("loadingDashboard", << >>)]
    IN  Await(Done(s1, "showDashboard.loading"),
              Request("dashboard", << >>, 0, << >>, << >>, "showDashboard",
                      NoSnapshot))

\* showDashboard(), up to `await this.renderDashboardContent()`, which reads
\* this.programs.title (a TypeError while the catalog is not loaded) and then
\* awaits the manifests of all programs.
ShowDashboard(st) ==
    LET s1 == [st EXCEPT !.currentProgram = << >>, !.modules = << >>,
                         !.contentArea = View("loadingDashboard", << >>)]
    IN  IF ~s1.programs THEN Done(s1, "showDashboard.threw")
        ELSE Await(Done(s1, "showDashboard.loading"),
                   Request("dashboard", << >>, 0, << >>, << >>, "showDashboard",
                           NoSnapshot))

\* renderDashboardContent has returned with the progress of every catalog
\* program, in catalog order (getProgramProgressWithManifest catches every
\* fetch failure; unavailable are the programs whose manifest fetch failed):
\* the dashboard is shown and published.
DashboardRendered(st, r, unavailable) ==
    LET cards == [n \in DOMAIN Catalog |->
                     GetProgramProgressWithManifest(st.progress, Catalog[n],
                                                    Catalog[n].id \notin unavailable)]
        s1 == [Settle(st, r) EXCEPT !.contentArea = View("dashboard", cards),
                                    !.lastPage = "none"]
    IN  Done(StoreState(PushState(s1, StateDashboard, HashEmpty), Null, << >>),
             "showDashboard.published")

(***************************************************************************)
(* Progress tracking.                                                      *)
(***************************************************************************)
\* saveProgress()
SaveProgress(st) ==
    IF st.storageFull THEN st
    ELSE [st EXCEPT !.progressItem = ProgressJson(st.progress)]

\* markModuleComplete throws a TypeError: this.progress is null, or it is a
\* number, or this.progress[programId] is one, and the assignment of a
\* property to a number throws in the strict code of a class.
MarkModuleCompleteThrows(st, programId) ==
    \/ st.progress.kind # "object"
    \/ LET p == Field(st.progress, programId)
       IN  p # << >> /\ p[1].kind = "number"

\* Variant of markModuleComplete that keeps the record only when it can be
\* written to storage.
MarkModuleComplete_NeedsStorage(st, programId, moduleId) ==
    LET p == Field(st.progress, programId)
        entry == IF p = << >> \/ p[1].kind = "null" THEN EmptyObject ELSE p[1]
    IN  IF st.storageFull THEN st
        ELSE SaveProgress([st EXCEPT !.progress =
                 SetField(@, programId,
                          SetField(entry, moduleId, ProgressRecord(TRUE, DateNow)))])

\* markModuleComplete(programId, moduleId), when it does not throw
MarkModuleComplete(st, programId, moduleId) ==
    LET p == Field(st.progress, programId)
        entry == IF p = << >> \/ p[1].kind = "null" THEN EmptyObject ELSE p[1]
    IN  SaveProgress([st EXCEPT !.progress =
            SetField(@, programId,
                     SetField(entry, moduleId, ProgressRecord(TRUE, DateNow)))])

\* navigatePrevious()
NavigatePrevious(st) ==
    IF st.currentPageIndex > 0
    THEN Done(LoadPage(st, st.currentPageIndex - 1), "navigatePrevious")
    ELSE Done(st, "navigatePrevious.first")

\* Variant of navigateNext that loads the next page first and then marks the
\* module at the page index.
NavigateNext_LoadsFirst(st) ==
    IF st.currentPageIndex < Len(st.modules) - 1
    THEN LET s1 == LoadPage(st, st.currentPageIndex + 1)
         IN  IF s1.currentProgram # << >>
             THEN IF MarkModuleCompleteThrows(s1, s1.currentProgram[1].id)
                  THEN Done(s1, "navigateNext.threw")
                  ELSE Done(MarkModuleComplete(s1, s1.currentProgram[1].id,
                                s1.modules[s1.currentPageIndex + 1].id),
                            "navigateNext")
             ELSE Done(s1, "navigateNext")
    ELSE Done(st, "navigateNext.last")

\* navigateNext()
NavigateNext(st) ==
    IF st.currentPageIndex < Len(st.modules) - 1
    THEN IF st.currentProgram # << >>
         THEN LET id == st.currentProgram[1].id
                  currentModule == st.modules[st.currentPageIndex + 1]
              IN  IF MarkModuleCompleteThrows(st, id)
                  THEN Done(st, "navigateNext.threw")
                  ELSE Done(LoadPage(MarkModuleComplete(st, id, currentModule.id),
                                     st.currentPageIndex + 1),
                            "navigateNext")
         ELSE Done(LoadPage(st, st.currentPageIndex + 1), "navigateNext")
    ELSE Done(st, "navigateNext.last")

\* Variant of the toggle that does not look at the record: it always marks
\* the module complete and moves on.
ToggleModuleComplete_AlwaysCompletes(st) ==
    IF st.currentPageIndex >= Len(st.modules) \/ st.currentProgram = << >>
    THEN Done(st, "toggle.nothing")
    ELSE LET id == st.currentProgram[1].id
             currentModule == st.modules[st.currentPageIndex + 1]
         IN  IF MarkModuleCompleteThrows(st, id) THEN Done(st, "toggle.threw")
             ELSE LET s1 == MarkModuleComplete(st, id, currentModule.id)
                  IN  IF st.currentPageIndex = Len(st.modules) - 1
                      THEN Done([s1 EXCEPT !.contentArea = View("completion", << >>)],
                                "toggle.completed")
                      ELSE Done(LoadPage(s1, st.currentPageIndex + 1),
                                "toggle.complete")

\* toggleModuleComplete()
ToggleModuleComplete(st) ==
    IF st.currentPageIndex >= Len(st.modules) \/ st.currentProgram = << >>
    THEN Done(st, "toggle.nothing")
    ELSE LET id == st.currentProgram[1].id
             currentModule == st.modules[st.currentPageIndex + 1]
         IN  IF st.progress.kind = "null" THEN Done(st, "toggle.threw")
             ELSE IF IsModuleComplete(st.progress, id, currentModule.id)
             THEN LET s1 == SaveProgress([st EXCEPT !.progress =
                                SetField(@, id, DeleteField(@.fields[id],
                                                            currentModule.id))])
                  IN  Done(LoadPage(s1, st.currentPageIndex), "toggle.incomplete")
             ELSE IF MarkModuleCompleteThrows(st, id) THEN Done(st, "toggle.threw")
             ELSE LET s1 == MarkModuleComplete(st, id, currentModule.id)
                  IN  IF st.currentPageIndex = Len(st.modules) - 1
                      THEN Done([s1 EXCEPT !.contentArea = View("completion", << >>)],
                                "toggle.completed")
                      ELSE Done(LoadPage(s1, st.currentPageIndex + 1),
                                "toggle.complete")

\* resetAllProgress(), confirmed
ResetAllProgress(st) ==
    ShowDashboard([st EXCEPT !.progressItem = ProgressAbsent,
                             !.progress = EmptyObject])

(***************************************************************************)
(* Startup and history events.                                             *)
(***************************************************************************)
\* init() after loadPrograms: the target is reconciled from hash and snapshot.
Reconcile(st) ==
    LET hashState == GetStateFromHash(LocationHash(st))
        storedState == GetStoredState(st.stored)
        programId == IF Truthy(hashState.programId) THEN hashState.programId
                     ELSE IF Truthy(storedState.programId) THEN storedState.programId
                     ELSE Null
        pageIndex == IF hashState.pageIndex # << >> THEN hashState.pageIndex[1]
                     ELSE IF storedState.pageIndex # << >> THEN storedState.pageIndex[1]
                     ELSE 0
    IN  [programId |-> programId, pageIndex |-> pageIndex]

CatalogLoaded(st, r) ==
    LET s1 == [Settle(st, r) EXCEPT !.programs = TRUE, !.lastPage = "none"]
        target == Reconcile(s1)
    IN  IF Truthy(target.programId)
        THEN SwitchProgram(s1, target.programId, target.pageIndex, "init")
        ELSE ShowDashboard(s1)

\* loadPrograms failed: init() shows the error.
CatalogFailed(st, r) ==
    Done([ShowError(Settle(st, r)) EXCEPT !.lastPage = "none"], "init.failed")

\* The popstate listener, for the entry the browser has moved to.
OnPopState(st) ==
    LET e == st.history[st.histIdx].state
        cur == IF st.currentProgram = << >> THEN Null ELSE st.currentProgram[1].id
        hashState == GetStateFromHash(LocationHash(st))
    IN  IF e.kind = "dashboard" THEN ShowDashboard(st)
        ELSE IF e.kind = "page" /\ Truthy(e.programId)
        THEN IF cur # e.programId
             THEN SwitchProgram(st, e.programId, e.page, "event")
             ELSE Done(LoadPage(st, e.page), "popstate.loadPage")
        ELSE IF ~Truthy(hashState.programId) THEN ShowDashboard(st)
        ELSE IF cur # hashState.programId
        THEN SwitchProgram(st, hashState.programId,
                           IF hashState.pageIndex = << >> THEN 0
                           ELSE hashState.pageIndex[1], "event")
        ELSE IF hashState.pageIndex # << >>
        THEN Done(LoadPage(st, hashState.pageIndex[1]), "popstate.loadPage")
        ELSE Done(st, "popstate.nothing")

(***************************************************************************)
(* The specification.                                                      *)
(***************************************************************************)
\* What the page is opened with.
InitialHashes ==
    { HashEmpty,
      [kind |-> "params", program |-> "A", page |-> << PageText(2) >>] }

InitialStored == { StoredAbsent, StoredObject("B", << 0 >>) }

\* The page indices callers pass in: program A has two pages, program B one.
PageInputs == -1 .. 2
ProgramInputs == {"A", "B", "X"}

\* No hash text is being built or parsed.
CodecIdle ==
    [stage |-> "idle", programId |-> << >>, pageIndex |-> 0, page |-> << >>,
     text |-> << >>, state |-> [programId |-> << >>, pageIndex |-> << >>]]

\* After `new TrainingApp()` on a page opened with one of the hashes and one of
\* the stored items: the constructor has called init(), which is waiting for
\* programs.json.
Constructor(hashes, items, records, quotas) ==
    /\ programs = FALSE
    /\ currentProgram = << >>
    /\ modules = << >>
    /\ contentCache = << >>
    /\ currentPageIndex = 0
    /\ contentArea = View("blank", << >>)
    /\ \E h \in hashes, item \in items :
           /\ history = << [state |-> StateNull, url |-> h] >>
           /\ stored = item
    /\ \E record \in records :
           /\ progressItem = record
           /\ progress = LoadProgress(record)
    /\ storageFull \in quotas
    /\ histIdx = 1
    /\ inflight = SetToBag({Request("catalog", << >>, 0, << >>, << "programs.json" >>,
                                     "init", NoSnapshot)})
    /\ lastOp = "constructor"
    /\ lastPage = "none"
    /\ calls = 0

Init ==
    /\ Constructor(InitialHashes, InitialStored, {ProgressAbsent}, {FALSE})
    /\ codec = CodecIdle

\* The handler entered by a step starts from the current state.
Start == [Cur EXCEPT !.lastPage = "none"]

\* The runs explored: at most MaxInflight pending fetches and at most MaxCalls
\* handler calls after the constructor.
WithinBounds(st) == BagCardinality(st.inflight) <= MaxInflight

\* A continuation of a pending fetch runs.
Step(st) == WithinBounds(st) /\ Becomes(st) /\ UNCHANGED << calls, codec >>

\* A handler is called.
Call(st) ==
    /\ calls < MaxCalls
    /\ WithinBounds(st)
    /\ Becomes(st)
    /\ calls' = calls + 1
    /\ UNCHANGED codec

\* A navigation item, the completion screen or a script calls loadPage(index).
CallLoadPage(index) == Call(Done(LoadPage(Start, index), "loadPage"))

\* The program selector, a dashboard card or a script calls switchProgram.
CallSwitchProgram(programId, pageIndex) ==
    /\ programs
    /\ Call(SwitchProgram(Start, programId, pageIndex, "event"))

\* The dashboard button.
CallShowDashboard ==
    /\ programs
    /\ Call(ShowDashboard(Start))

\* Back or forward: the browser moves to the entry and fires popstate.
PopState(j) ==
    /\ j \in 1 .. Len(history)
    /\ Call(OnPopState([Start EXCEPT !.histIdx = j]))

CatalogResolves(r) ==
    /\ r.kind = "catalog"
    /\ Step(CatalogLoaded(Cur, r))

CatalogFails(r) ==
    /\ r.kind = "catalog"
    /\ Step(CatalogFailed(Cur, r))

ManifestResolves(r) ==
    /\ r.kind = "manifest"
    /\ r.path \in ManifestPaths
    /\ Step(ManifestLoaded(Cur, r))

ManifestFails(r) ==
    /\ r.kind = "manifest"
    /\ Step(ManifestFailed(Cur, r))

ContentResolves(r) ==
    /\ r.kind = "content"
    /\ r.path \in ServerContent
    /\ Step(Done(ContentLoaded(Cur, r), "content.loaded"))

ContentFails(r) ==
    /\ r.kind = "content"
    /\ Step(Done(ContentFailed(Cur, r), "content.failed"))

DashboardResolves(r) ==
    /\ r.kind = "dashboard"
    /\ Step(DashboardRendered(Cur, r, {}))

Next ==
    \/ \E i \in PageInputs : CallLoadPage(i)
    \/ \E p \in ProgramInputs, i \in PageInputs : CallSwitchProgram(p, i)
    \/ CallShowDashboard
    \/ \E j \in {histIdx - 1, histIdx + 1} : PopState(j)
    \/ \E r \in Pending : CatalogResolves(r)
    \/ \E r \in Pending : CatalogFails(r)
    \/ \E r \in Pending : ManifestResolves(r)
    \/ \E r \in Pending : ManifestFails(r)
    \/ \E r \in Pending : ContentResolves(r)
    \/ \E r \in Pending : ContentFails(r)
    \/ \E r \in Pending : DashboardResolves(r)

Spec == Init /\ [][Next]_vars

(***************************************************************************)
(* Startup and sequential use: the page is opened with any of the hash     *)
(* forms and stored items below, and a handler is called only when no      *)
(* fetch is pending.  Program E (no module) is among the inputs.           *)
(***************************************************************************)
HashLegacy(n) == [kind |-> "legacy", program |-> Null, page |-> << PageText(n) >>]
HashParams(programId, page) == [kind |-> "params", program |-> programId, page |-> page]

StartupHashes ==
    { HashEmpty, HashLegacy(2), HashParams("A", << >>),
      HashParams("A", << PageText(2) >>), HashParams("X", << PageText(1) >>) }

StartupStored ==
    { StoredAbsent, StoredObject("B", << 1 >>), StoredObject("A", << 3 >>) }

StartupPrograms == {"A", "E", "X"}

InitStartup ==
    /\ Constructor(StartupHashes, StartupStored, {ProgressAbsent}, {FALSE})
    /\ codec = CodecIdle

Quiet == PendingCount = 0

NextStartup ==
    \/ \E i \in PageInputs : Quiet /\ CallLoadPage(i)
    \/ \E p \in StartupPrograms, i \in PageInputs : Quiet /\ CallSwitchProgram(p, i)
    \/ Quiet /\ CallShowDashboard
    \/ \E j \in {histIdx - 1, histIdx + 1} : Quiet /\ PopState(j)
    \/ \E r \in Pending : CatalogResolves(r)
    \/ \E r \in Pending : CatalogFails(r)
    \/ \E r \in Pending : ManifestResolves(r)
    \/ \E r \in Pending : ManifestFails(r)
    \/ \E r \in Pending : ContentResolves(r)
    \/ \E r \in Pending : ContentFails(r)
    \/ \E r \in Pending : DashboardResolves(r)

SpecStartup == InitStartup /\ [][NextStartup]_vars

(***************************************************************************)
(* SpecProgress: progress tracking.  Handlers are called only when nothing *)
(* is pending; the stored progress map is absent, unparseable or a map of  *)
(* records, and storage accepts writes or rejects all of them.             *)
(***************************************************************************)
EarlierRecords(moduleIds, completed) ==
    ProgressJson(JsonObject([p \in {"A"} |->
        JsonObject([m \in moduleIds |-> ProgressRecord(completed[m], 0)])]))

ProgressItems ==
    {ProgressAbsent, ProgressCorrupt, ProgressJson(EmptyObject),
     EarlierRecords({"m1"}, [m \in {"m1"} |-> TRUE]),
     EarlierRecords({"m1", "m2"}, [m \in {"m1", "m2"} |-> m = "m1"])}

ProgressHashes ==
    {HashEmpty, HashParams("A", << >>), HashParams("A", << PageText(2) >>)}

InitProgress ==
    /\ Constructor(ProgressHashes, {StoredAbsent}, ProgressItems, BOOLEAN)
    /\ codec = CodecIdle

\* ArrowRight, or the Next button of a page
CallNavigateNext ==
    /\ programs
    /\ Call(NavigateNext(Start))

\* ArrowLeft, or the Previous button of a page
CallNavigatePrevious ==
    /\ programs
    /\ Call(NavigatePrevious(Start))

\* The Mark complete / Mark incomplete button of a page
CallToggleModuleComplete ==
    /\ programs
    /\ Call(ToggleModuleComplete(Start))

\* The reset button of the dashboard, confirmed
CallResetAllProgress ==
    /\ contentArea.view = "dashboard"
    /\ Call(ResetAllProgress(Start))

\* The dashboard has its answers; the manifests of `unavailable` failed.
DashboardResolvesPartly(r, unavailable) ==
    /\ r.kind = "dashboard"
    /\ Step(DashboardRendered(Cur, r, unavailable))

NextProgress ==
    \/ Quiet /\ CallNavigateNext
    \/ Quiet /\ CallNavigatePrevious
    \/ Quiet /\ CallToggleModuleComplete
    \/ Quiet /\ CallResetAllProgress
    \/ Quiet /\ CallShowDashboard
    \/ \E p \in {"A", "B"} : Quiet /\ CallSwitchProgram(p, 0)
    \/ \E r \in Pending : CatalogResolves(r)
    \/ \E r \in Pending : ManifestResolves(r)
    \/ \E r \in Pending : ContentResolves(r)
    \/ \E r \in Pending, unavailable \in SUBSET {"A", "B"} :
           DashboardResolvesPartly(r, unavailable)

SpecProgress == InitProgress /\ [][NextProgress]_vars

(***************************************************************************)
(* SpecStorage: the same handlers, started with stored items that are      *)
(* absent, unparseable, or JSON of another shape than the one written.     *)
(***************************************************************************)
StorageRecords ==
    {ProgressAbsent, ProgressCorrupt, ProgressJson(JsonNull),
     ProgressJson(JsonNumber),
     ProgressJson(JsonObject([p \in {"A"} |-> JsonNumber])),
     ProgressJson(JsonObject([p \in {"A"} |->
                                 JsonObject([m \in {"m1"} |-> JsonNull])]))}

StorageSnapshots == {StoredAbsent, StoredCorrupt, StoredNull, StoredMistyped}

InitStorage ==
    /\ Constructor({HashEmpty, HashParams("A", << >>)}, StorageSnapshots,
                   StorageRecords, {FALSE})
    /\ codec = CodecIdle

SpecStorage == InitStorage /\ [][NextProgress]_vars

(***************************************************************************)
(* SpecReload: SpecStartup with reloads of the page.  A reload builds a    *)
(* new TrainingApp; the session history, the current entry and             *)
(* localStorage stay, the fetches of the old document are dropped.         *)
(***************************************************************************)
Reloaded(st) ==
    [st EXCEPT !.programs = FALSE,
               !.currentProgram = << >>,
               !.modules = << >>,
               !.contentCache = << >>,
               !.currentPageIndex = 0,
               !.contentArea = View("blank", << >>),
               !.progress = LoadProgress(st.progressItem),
               !.inflight = SetToBag({Request("catalog", << >>, 0, << >>,
                                              << "programs.json" >>, "init",
                                              NoSnapshot)}),
               !.lastOp = "constructor",
               !.lastPage = "none"]

Reload == Call(Reloaded(Cur))

NextReload ==
    \/ Reload
    \/ NextStartup

SpecReload == InitStartup /\ [][NextReload]_vars

(***************************************************************************)
(* The hash as text.  Above, a hash is the record of its components; here  *)
(* buildHash and getStateFromHash work on the characters: a text is a      *)
(* sequence of one-character strings.  URLSearchParams writes and reads    *)
(* application/x-www-form-urlencoded: letters, digits and * - . _ stay, a  *)
(* space becomes +, every other character becomes %XX.                     *)
(***************************************************************************)
ProgramName == << "p", "r", "o", "g", "r", "a", "m" >>
PageName == << "p", "a", "g", "e" >>
LegacyPrefix == << "#", "p", "a", "g", "e", "-" >>

Letters == {"a", "e", "g", "m", "o", "p", "r"}
Digits == << "0", "1", "2", "3", "4", "5", "6", "7", "8", "9" >>

IsDigit(c) == \E d \in DOMAIN Digits : Digits[d] = c
DigitValue(c) == (CHOOSE d \in DOMAIN Digits : Digits[d] = c) - 1

\* The characters that have a %XX form here, each with its form.
PercentCodes ==
    << << " ", << "%", "2", "0" >> >>, << "#", << "%", "2", "3" >> >>,
       << "%", << "%", "2", "5" >> >>, << "&", << "%", "2", "6" >> >>,
       << "+", << "%", "2", "B" >> >>, << "=", << "%", "3", "D" >> >> >>

FirstOf(ks) == CHOOSE k \in ks : \A j \in ks : k <= j

\* String(n), n >= 0
RECURSIVE NumberText(_)
NumberText(n) ==
    IF n < 10 THEN << Digits[n + 1] >>
    ELSE Append(NumberText(n \div 10), Digits[(n % 10) + 1])

\* The longest prefix of digits (\d+ of the legacy pattern, the digits parseInt reads).
RECURSIVE DigitPrefix(_)
DigitPrefix(t) ==
    IF t = << >> \/ ~IsDigit(t[1]) THEN << >>
    ELSE << t[1] >> \o DigitPrefix(Tail(t))

RECURSIVE DigitsValue(_)
DigitsValue(t) ==
    IF t = << >> THEN 0
    ELSE DigitsValue(SubSeq(t, 1, Len(t) - 1)) * 10 + DigitValue(t[Len(t)])

RECURSIVE SkipSpaces(_)
SkipSpaces(t) == IF t # << >> /\ t[1] = " " THEN SkipSpaces(Tail(t)) ELSE t

\* parseInt(text, 10) on a text: leading spaces, a sign, then digits;
\* << n >>, or << >> for NaN.
ParseIntText(t) ==
    LET u == SkipSpaces(t)
        signed == u # << >> /\ u[1] \in {"-", "+"}
        ds == DigitPrefix(IF signed THEN Tail(u) ELSE u)
    IN  IF ds = << >> THEN << >>
        ELSE IF signed /\ u[1] = "-" THEN << 0 - DigitsValue(ds) >>
        ELSE << DigitsValue(ds) >>

\* Variant of the serializer that escapes nothing.
EncodeChar_Raw(c) == << c >>

\* One character as URLSearchParams.toString() writes it.
EncodeChar(c) ==
    IF c = " " THEN << "+" >>
    ELSE IF c \in Letters \/ IsDigit(c) \/ c \in {"*", "-", ".", "_"} THEN << c >>
    ELSE PercentCodes[CHOOSE k \in DOMAIN PercentCodes : PercentCodes[k][1] = c][2]

RECURSIVE EncodeText(_)
EncodeText(t) == IF t = << >> THEN << >> ELSE EncodeChar(t[1]) \o EncodeText(Tail(t))

\* params.toString(): name=value pairs joined by &.
RECURSIVE ParamsToString(_)
ParamsToString(params) ==
    IF params = << >> THEN << >>
    ELSE LET pair == EncodeText(params[1][1]) \o << "=" >> \o EncodeText(params[1][2])
         IN  IF Len(params) = 1 THEN pair
             ELSE pair \o << "&" >> \o ParamsToString(Tail(params))

\* %XX back to its character; a % that starts no known form stays.
RECURSIVE PercentDecode(_)
PercentDecode(t) ==
    IF t = << >> THEN << >>
    ELSE LET ks == {k \in DOMAIN PercentCodes :
                        Len(t) >= 3 /\ PercentCodes[k][2] = SubSeq(t, 1, 3)}
         IN  IF ks = {} THEN << t[1] >> \o PercentDecode(Tail(t))
             ELSE << PercentCodes[FirstOf(ks)][1] >> \o PercentDecode(SubSeq(t, 4, Len(t)))

DecodeText(t) ==
    PercentDecode([k \in DOMAIN t |-> IF t[k] = "+" THEN " " ELSE t[k]])

\* text.split(sep)
RECURSIVE Split(_, _)
Split(t, sep) ==
    LET ks == {k \in DOMAIN t : t[k] = sep}
    IN  IF ks = {} THEN << t >>
        ELSE << SubSeq(t, 1, FirstOf(ks) - 1) >>
                 \o Split(SubSeq(t, FirstOf(ks) + 1, Len(t)), sep)

\* One name=value piece of a query, decoded.
ParsePair(piece) ==
    LET ks == {k \in DOMAIN piece : piece[k] = "="}
    IN  IF ks = {} THEN << DecodeText(piece), << >> >>
        ELSE << DecodeText(SubSeq(piece, 1, FirstOf(ks) - 1)),
                DecodeText(SubSeq(piece, FirstOf(ks) + 1, Len(piece))) >>

\* new URLSearchParams(query): a leading ? is dropped, empty pieces skipped.
ParseParams(query) ==
    LET q == IF query # << >> /\ query[1] = "?" THEN Tail(query) ELSE query
        pieces == SelectSeq(Split(q, "&"), LAMBDA piece : piece # << >>)
    IN  [k \in DOMAIN pieces |-> ParsePair(pieces[k])]

\* params.get(name): << value >> of the first pair with that name, or << >>.
ParamsGet(params, name) ==
    LET ks == {k \in DOMAIN params : params[k][1] = name}
    IN  IF ks = {} THEN << >> ELSE << params[FirstOf(ks)][2] >>

\* buildHash(programId, pageIndex) on text; programId is << >> (null) or
\* << text >>, pageIndex is << >> or << n >>.
BuildHashText(programId, pageIndex) ==
    << "#" >> \o ParamsToString(
        (IF programId # << >> /\ programId[1] # << >>
         THEN << << ProgramName, programId[1] >> >> ELSE << >>)
        \o (IF pageIndex # << >>
            THEN << << PageName, NumberText(pageIndex[1] + 1) >> >> ELSE << >>))

\* window.location.hash of a URL whose fragment was set to `hash`: "#" alone
\* reads back as "", the characters the serializer writes are kept as they are.
LocationHashText(hash) == IF hash = << "#" >> THEN << >> ELSE hash

\* hash.match(/#page-(\d+)/): << digits >> of the leftmost match, or << >>.
LegacyMatch(hash) ==
    LET ks == {k \in 1 .. Len(hash) - 6 :
                  SubSeq(hash, k, k + 5) = LegacyPrefix /\ IsDigit(hash[k + 6])}
    IN  IF ks = {} THEN << >>
        ELSE << DigitPrefix(SubSeq(hash, FirstOf(ks) + 6, Len(hash))) >>

\* getStateFromHash() on the text of window.location.hash.
GetStateFromHashText(hash) ==
    LET legacyMatch == LegacyMatch(hash)
        params == ParseParams(Tail(hash))
        programId == ParamsGet(params, ProgramName)
        pageParam == ParamsGet(params, PageName)
        parsed == IF pageParam # << >> /\ pageParam[1] # << >>
                  THEN ParseIntText(pageParam[1]) ELSE << >>
    IN  IF legacyMatch # << >>
        THEN [programId |-> << >>,
              pageIndex |-> << ParseIntText(legacyMatch[1])[1] - 1 >>]
        ELSE IF hash = << >> \/ hash[1] # "#"
        THEN [programId |-> << >>, pageIndex |-> << >>]
        ELSE [programId |-> IF programId # << >> /\ programId[1] # << >>
                            THEN programId ELSE << >>,
              pageIndex |-> IF parsed = << >> THEN << >> ELSE << parsed[1] - 1 >>]

(***************************************************************************)
(* buildHash then getStateFromHash, for program ids of up to MaxIdLen      *)
(* characters (reserved ones among them) and page indices up to            *)
(* MaxPageIndex.                                                           *)
(***************************************************************************)
IdChars == {"a", "7", "-", "&", "=", "#", "%", "+", " "}
IdTexts == UNION {[1 .. n -> IdChars] : n \in 1 .. MaxIdLen}

InitCodec ==
    /\ Constructor({HashEmpty}, {StoredAbsent}, {ProgressAbsent}, {FALSE})
    /\ \E id \in IdTexts, index \in 0 .. MaxPageIndex :
           codec = [CodecIdle EXCEPT !.stage = "input", !.programId = << id >>,
                                     !.pageIndex = index]

appFrame == << programs, currentProgram, modules, contentCache, currentPageIndex,
               contentArea, history, histIdx, stored, progress, progressItem,
               storageFull, inflight, lastOp, lastPage, calls >>

\* loadPage builds the hash and pushes it; the browser keeps it as the URL.
BuildsHash ==
    /\ codec.stage = "input"
    /\ codec' = [codec EXCEPT
                     !.stage = "built",
                     !.text = LocationHashText(
                                  BuildHashText(codec.programId, << codec.pageIndex >>))]
    /\ UNCHANGED appFrame

\* init or the popstate handler reads the hash back.
ParsesHash ==
    /\ codec.stage = "built"
    /\ codec' = [codec EXCEPT !.stage = "parsed",
                              !.state = GetStateFromHashText(codec.text)]
    /\ UNCHANGED appFrame

NextCodec == BuildsHash \/ ParsesHash

SpecCodec == InitCodec /\ [][NextCodec]_vars

(***************************************************************************)
(* Hashes as a user types or bookmarks them, parsed and reconciled by      *)
(* init: the structured form #program=a with or without &page=.., and the  *)
(* legacy form #page-.., with page components of up to MaxPageLen          *)
(* characters; nothing is stored.                                          *)
(***************************************************************************)
PageChars == {"0", "1", "7", "-", "a"}
PageTexts == UNION {[1 .. n -> PageChars] : n \in 0 .. MaxPageLen}

\* The typed hash of a form, for a page component (<< >>: none).
TypedHash(form, page) ==
    IF form = "legacy" THEN LegacyPrefix \o page[1]
    ELSE << "#" >> \o ProgramName \o << "=", "a" >>
             \o (IF page = << >> THEN << >>
                 ELSE << "&" >> \o PageName \o << "=" >> \o page[1])

InitTyped ==
    /\ Constructor({HashEmpty}, {StoredAbsent}, {ProgressAbsent}, {FALSE})
    /\ \E form \in {"legacy", "params"},
          page \in {<< >>} \cup {<< t >> : t \in PageTexts} :
           /\ form = "legacy" => page # << >>
           /\ codec = [CodecIdle EXCEPT !.stage = "built", !.page = page,
                                        !.text = TypedHash(form, page)]

\* init(): the page index of the target, from the parsed hash and the
\* parsed snapshot.
TargetPageIndex(hashState, storedState) ==
    IF hashState.pageIndex # << >> THEN hashState.pageIndex[1]
    ELSE IF storedState.pageIndex # << >> THEN storedState.pageIndex[1]
    ELSE 0

ReconcilesTarget ==
    /\ codec.stage = "parsed"
    /\ codec' = [codec EXCEPT
                     !.stage = "reconciled",
                     !.pageIndex = TargetPageIndex(codec.state, GetStoredState(stored))]
    /\ UNCHANGED appFrame

NextTyped == ParsesHash \/ ReconcilesTarget

SpecTyped == InitTyped /\ [][NextTyped]_vars

(***************************************************************************)
(* Properties.                                                             *)
(***************************************************************************)
\* The fields of the app and the browser, without the bookkeeping of the run.
appVars == << programs, currentProgram, modules, contentCache, currentPageIndex,
              contentArea, history, histIdx, stored, inflight >>

\* The step issues a fetch described by r.
Issues(r) == CopiesIn(r, inflight') > CopiesIn(r, inflight)

IssuesContentFetch == \E r \in BagToSet(inflight') : r.kind = "content" /\ Issues(r)

CurrentId == IF currentProgram = << >> THEN Null ELSE currentProgram[1].id

SortedManifest(program) == SortByOrder(ServerManifest(program.manifest))

\* C1: loadPage(index) with index < 0 or index >= modules.length changes
\* nothing: not the program, the page index, the modules, the cache, the
\* history, the hash or the snapshot, and it issues no fetch.
C1_OutOfRangeIsNoOp ==
    [][\A i \in PageInputs :
          (CallLoadPage(i) /\ (i < 0 \/ i >= Len(modules))) => UNCHANGED appVars]_vars

\* An out-of-range loadPage has just been ignored while a program with pages
\* is current.
C1_Witness ==
    /\ lastOp = "loadPage" /\ lastPage = "ignored"
    /\ currentProgram # << >> /\ modules # << >>

\* C2: when the content fetch of loadPage(i) fails, currentPageIndex is again
\* what it was before loadPage(i) was called.
C2_FailedFetchKeepsPageIndex ==
    [][\A r \in Pending :
          ContentFails(r) => currentPageIndex' = r.pre.currentPageIndex]_vars

\* The step pushes no history entry and writes no snapshot; the current entry
\* moves only if the step is the browser going back or forward.
NothingPublished ==
    /\ history' = history
    /\ stored' = stored
    /\ \/ histIdx' = histIdx
       \/ \E j \in {histIdx - 1, histIdx + 1} : PopState(j) /\ histIdx' = j

\* C3: a loadPage request writes the history and the snapshot neither when it
\* issues its content fetch nor when that fetch fails.
C3_PublishOnlyAfterFetch ==
    [][/\ IssuesContentFetch => NothingPublished
       /\ \A r \in Pending : ContentFails(r) => NothingPublished]_vars

\* A content fetch has just failed in a session that has published before.
C3_Witness ==
    /\ lastOp = "content.failed" /\ lastPage = "failed"
    /\ Len(history) > 1

\* C4: when the manifest fetch of switchProgram fails, the program, the
\* modules, the page index, the history, the hash and the snapshot are what
\* they were before the call.
C4_FailedManifestKeepsState ==
    [][\A r \in Pending :
          ManifestFails(r) =>
              /\ currentProgram' = r.pre.currentProgram
              /\ modules' = r.pre.modules
              /\ currentPageIndex' = r.pre.currentPageIndex
              /\ history' = r.pre.history
              /\ histIdx' = r.pre.histIdx
              /\ stored' = r.pre.stored]_vars

\* C5: of two overlapping switchProgram requests the one whose manifest
\* resolves last determines the visible state: when a manifest resolves, a
\* program is current and no other manifest is pending, that request's program
\* is the current one, with its modules.
C5_LastResolverWins ==
    [][\A r \in Pending :
          (/\ ManifestResolves(r)
           /\ currentProgram # << >>
           /\ \A q \in BagToSet(inflight') : q.kind # "manifest")
          => /\ currentProgram' = r.program
             /\ modules' = SortedManifest(r.program[1])]_vars

\* C6: with no request pending and a program current, the modules are the
\* sorted manifest of that program and the page index is one of its pages.
C6_ProgramActiveBound ==
    (PendingCount = 0 /\ currentProgram # << >>) =>
        /\ modules = SortedManifest(currentProgram[1])
        /\ modules # << >> => (0 <= currentPageIndex /\ currentPageIndex < Len(modules))

\* C7: with no request pending (and the catalog loaded) the snapshot and the
\* current history entry encode the current program and page, or the
\* dashboard when no program is current.
C7_MirrorsDerivable ==
    (PendingCount = 0 /\ programs) =>
        IF currentProgram = << >>
        THEN /\ stored.programId = Null
             /\ history[histIdx].url = HashEmpty
        ELSE /\ stored = StoredObject(CurrentId, << currentPageIndex >>)
             /\ history[histIdx] =
                    [state |-> StatePage(CurrentId, currentPageIndex),
                     url |-> BuildHash(CurrentId, << currentPageIndex >>)]

\* C8: every cache entry programId:moduleId holds the file of a module of
\* that program's manifest, fetched from that program's directory.
C8_CacheKeysMatchContent ==
    \A key \in DOMAIN contentCache :
        \E k \in DOMAIN Catalog :
            /\ Catalog[k].id = key[1]
            /\ \E n \in DOMAIN SortedManifest(Catalog[k]) :
                  LET m == SortedManifest(Catalog[k])[n]
                  IN  /\ m.id = key[2]
                      /\ contentCache[key] = ServerFile(ContentPath(Catalog[k], m))

\* C9: a content fetch is issued only for a key the cache does not hold, and
\* loadPage for a cached key shows the cached content without any fetch.
C9_AtMostOneFetch ==
    [][/\ \A r \in BagToSet(inflight') :
             (r.kind = "content" /\ Issues(r)) => r.key \notin DOMAIN contentCache
       /\ \A i \in PageInputs :
             (/\ CallLoadPage(i)
              /\ i >= 0 /\ i < Len(modules) /\ currentProgram # << >>
              /\ CacheKey(currentProgram[1], modules[i + 1]) \in DOMAIN contentCache)
             => /\ inflight' = inflight
                /\ contentCache' = contentCache
                /\ contentArea' =
                       View("page", << contentCache[CacheKey(currentProgram[1],
                                                              modules[i + 1])] >>)]_vars

\* A program is entered again (after another program or the dashboard) and
\* its page comes from the cache.
C9_Witness ==
    /\ lastOp \in {"manifest.loaded", "manifest.clamped"} /\ lastPage = "published"
    /\ CacheKey(currentProgram[1], modules[currentPageIndex + 1])
           \in DOMAIN contentCache

\* C10: a failed content fetch leaves the cache as it was, and loadPage for a
\* key the cache does not hold issues a fetch for that key.
C10_FailureNotCached ==
    [][/\ \A r \in Pending : ContentFails(r) => contentCache' = contentCache
       /\ \A i \in PageInputs :
             (/\ CallLoadPage(i)
              /\ i >= 0 /\ i < Len(modules) /\ currentProgram # << >>
              /\ CacheKey(currentProgram[1], modules[i + 1]) \notin DOMAIN contentCache)
             => \E r \in BagToSet(inflight') :
                    /\ r.kind = "content" /\ Issues(r)
                    /\ r.key = CacheKey(currentProgram[1], modules[i + 1])]_vars

\* The fetch of the current page has just failed and its key is not cached.
C10_Witness ==
    /\ lastOp = "content.failed"
    /\ currentProgram # << >> /\ currentPageIndex < Len(modules)
    /\ CacheKey(currentProgram[1], modules[currentPageIndex + 1])
           \notin DOMAIN contentCache

\* C11: a cache entry, once present, stays in the cache with the same payload
\* in every later state, whatever handler or continuation runs.
C11_CacheEntriesImmutable ==
    [][\A key \in DOMAIN contentCache :
          /\ key \in DOMAIN contentCache'
          /\ contentCache'[key] = contentCache[key]]_vars

\* The history entry and the snapshot that publish page `index` of program id.
PageEntry(id, index) ==
    [state |-> StatePage(id, index), url |-> BuildHash(id, << index >>)]

PublishedNow(id, index) ==
    /\ history' = Append(SubSeq(history, 1, histIdx), PageEntry(id, index))
    /\ histIdx' = histIdx + 1
    /\ stored' = StoredObject(id, << index >>)

\* C12: switchProgram(p, i) for a program p with modules and i outside
\* 0 .. moduleCount-1, called while nothing else is pending: when the manifest
\* arrives p is current with its modules, the page index is 0 for i < 0 and
\* moduleCount-1 for i > moduleCount-1, and that page is published at once
\* (cached) or fetched; when the fetch answers, p and that page index are
\* what is current and what is published.
C12_SwitchProgramClamps ==
    [][/\ \A r \in Pending :
             LET sorted == SortedManifest(r.program[1])
                 clamped == IF r.pageIndex < 0 THEN 0 ELSE Len(sorted) - 1
             IN  (/\ r.kind = "manifest"
                  /\ sorted # << >>
                  /\ (r.pageIndex < 0 \/ r.pageIndex > Len(sorted) - 1)
                  /\ ManifestResolves(r))
                 => /\ currentProgram' = r.program
                    /\ modules' = sorted
                    /\ currentPageIndex' = clamped
                    /\ \/ PublishedNow(r.program[1].id, clamped)
                       \/ \E q \in BagToSet(inflight') :
                              /\ q.kind = "content" /\ Issues(q)
                              /\ q.program = r.program /\ q.pageIndex = clamped
                              /\ q.key = CacheKey(r.program[1], sorted[clamped + 1])
       /\ \A q \in Pending :
             (q.kind = "content" /\ ContentResolves(q))
             => /\ PublishedNow(q.program[1].id, q.pageIndex)
                /\ currentProgram' = q.program
                /\ currentPageIndex' = q.pageIndex]_vars

\* A switchProgram with a page beyond the last one has been clamped to the
\* last page of a program with several pages, and that page is published.
C12_Witness ==
    /\ lastOp = "manifest.clamped" /\ lastPage = "published"
    /\ currentProgram # << >> /\ Len(modules) > 1
    /\ currentPageIndex = Len(modules) - 1
    /\ history[histIdx] = PageEntry(CurrentId, currentPageIndex)

\* C13: when the manifest of switchProgram(p, i) arrives with no module, p is
\* the current program and the page index is 0, whatever i was and whatever
\* the page index was before.
C13_EmptyProgramPageZero ==
    [][\A r \in Pending :
          (/\ r.kind = "manifest"
           /\ SortedManifest(r.program[1]) = << >>
           /\ ManifestResolves(r))
          => /\ currentProgram' = r.program
             /\ modules' = << >>
             /\ currentPageIndex' = 0]_vars

\* C14: switchProgram with a program id that is not in the catalog issues no
\* fetch and changes nothing: not the program, the modules, the page index,
\* the cache, the history, the hash or the snapshot.  This holds for a call by
\* a handler and for the call init() makes for an unknown id in the hash.
C14_UnknownProgramIsNoOp ==
    [][/\ \A p \in StartupPrograms \ ProgramIds, i \in PageInputs :
             CallSwitchProgram(p, i) => UNCHANGED appVars
       /\ \A r \in Pending :
             (/\ r.kind = "catalog"
              /\ Truthy(Reconcile(Cur).programId)
              /\ Reconcile(Cur).programId \notin ProgramIds
              /\ CatalogResolves(r))
             => /\ UNCHANGED << currentProgram, modules, currentPageIndex,
                               contentCache, history, histIdx, stored >>
                /\ inflight' = inflight (-) SetToBag({r})]_vars

\* switchProgram was called with an unknown id while a program was current.
C14_Witness ==
    /\ lastOp = "switchProgram.unknown" /\ calls > 0
    /\ currentProgram # << >> /\ modules # << >>

\* C15: for every program id p (a non-empty text) and every page index
\* i >= 0, getStateFromHash on the hash that buildHash(p, i) produces gives
\* program id p and page index i.
C15_HashRoundTrip ==
    codec.stage = "parsed" =>
        codec.state = [programId |-> codec.programId,
                       pageIndex |-> << codec.pageIndex >>]

\* A hash was built and parsed for an id with a reserved character and a
\* page number of two digits.
C15_Witness ==
    /\ codec.stage = "parsed"
    /\ \E k \in DOMAIN codec.programId[1] : codec.programId[1][k] \in {"&", "=", "#", "%"}
    /\ codec.pageIndex >= 9
    /\ Len(codec.text) > Len(codec.programId[1]) + 16

\* C16: a loadPage(i) called in program p that succeeds (its page is shown,
\* from the cache at once or when its content fetch answers) pushes exactly
\* one history entry, with the URL of program p and page i+1 and the payload
\* (p, i), and stores the snapshot (p, i).
C16_NavigationPublishes ==
    [][/\ \A q \in Pending :
             (/\ q.kind = "content"
              /\ ContentResolves(q)
              /\ contentArea'.view = "page")
             => PublishedNow(q.program[1].id, q.pageIndex)
       /\ \A i \in PageInputs :
             (/\ i >= 0 /\ i < Len(modules)
              /\ CallLoadPage(i)
              /\ contentArea'.view = "page")
             => PublishedNow(CurrentId, i)]_vars

\* C17: when the hash the page is opened with names a catalog program, init
\* takes program and page from the hash alone: it switches to that program
\* with the page of the hash, or page index 0 when the hash has no (valid)
\* page, whatever the snapshot holds.
C17_HashBeforeSnapshot ==
    [][\A r \in Pending :
          LET hash == LocationHash(Cur)
          IN  (/\ r.kind = "catalog"
               /\ hash.kind = "params" /\ hash.program \in ProgramIds
               /\ CatalogResolves(r))
              => \E q \in BagToSet(inflight') :
                     /\ q.kind = "manifest" /\ Issues(q)
                     /\ q.program = FindProgram(hash.program)
                     /\ q.pageIndex = IF hash.page = << >> \/ ~hash.page[1].num
                                      THEN 0 ELSE hash.page[1].val - 1]_vars

\* C18: a page opened with an empty hash and a snapshot (p, k), p a catalog
\* program with modules and k >= 0: init switches to p with page k; when the
\* manifest arrives p is current with its modules and the page index is
\* min(k, moduleCount-1), whose content is fetched; when the content arrives
\* that page of p is current and published.
C18_ResumeFromSnapshot ==
    [][calls = 0 /\ history[1].url = HashEmpty =>
        /\ \A r \in Pending :
              (/\ r.kind = "catalog"
               /\ stored.kind = "object" /\ stored.programId \in ProgramIds
               /\ stored.pageIndex # << >>
               /\ CatalogResolves(r))
              => \E q \in BagToSet(inflight') :
                     /\ q.kind = "manifest" /\ Issues(q)
                     /\ q.program = FindProgram(stored.programId)
                     /\ q.pageIndex = stored.pageIndex[1]
        /\ \A q \in Pending :
              LET sorted == SortedManifest(q.program[1])
                  resumed == Min(q.pageIndex, Len(sorted) - 1)
              IN  (/\ q.kind = "manifest" /\ q.origin = "init"
                   /\ sorted # << >> /\ q.pageIndex >= 0
                   /\ ManifestResolves(q))
                  => /\ currentProgram' = q.program
                     /\ modules' = sorted
                     /\ currentPageIndex' = resumed
                     /\ \E c \in BagToSet(inflight') :
                            /\ c.kind = "content" /\ Issues(c)
                            /\ c.program = q.program /\ c.pageIndex = resumed
                            /\ c.path = ContentPath(q.program[1], sorted[resumed + 1])
        /\ \A c \in Pending :
              (c.kind = "content" /\ ContentResolves(c))
              => /\ currentProgram' = c.program
                 /\ currentPageIndex' = c.pageIndex
                 /\ contentArea' = View("page", << ServerFile(c.path) >>)
                 /\ PublishedNow(c.program[1].id, c.pageIndex)]_vars

\* The session was resumed from the snapshot alone: the hash was empty, and
\* the last page of the stored program is shown and published.
C18_Witness ==
    /\ calls = 0 /\ lastOp = "content.loaded" /\ lastPage = "published"
    /\ history[1].url = HashEmpty /\ Len(history) = 2
    /\ currentProgram # << >>
    /\ currentPageIndex = Len(SortedManifest(currentProgram[1])) - 1
    /\ stored = StoredObject(CurrentId, << currentPageIndex >>)

\* C19: a page opened with the legacy hash #page-N and no stored program:
\* the reconciled target is page index N-1 without a program id; until a
\* handler is called no program is current, no manifest or content fetch of
\* a page is pending, and once the catalog is loaded the dashboard is being
\* shown, and is published when it is rendered.
C19_LegacyHashToDashboard ==
    (calls = 0 /\ history[1].url.kind = "legacy" /\ stored.programId = Null) =>
        /\ lastOp = "constructor" =>
               Reconcile(Cur) = [programId |-> Null,
                                 pageIndex |-> history[1].url.page[1].val - 1]
        /\ currentProgram = << >>
        /\ \A r \in Pending : r.kind \in {"catalog", "dashboard"}
        /\ programs => contentArea.view \in {"loadingDashboard", "dashboard"}
        /\ (programs /\ PendingCount = 0) =>
               /\ contentArea.view = "dashboard"
               /\ history[histIdx] = [state |-> StateDashboard, url |-> HashEmpty]

\* The page was opened with a legacy hash and no stored program, and the
\* dashboard has been shown.
C19_Witness ==
    /\ calls = 0 /\ history[1].url.kind = "legacy" /\ stored.programId = Null
    /\ lastOp = "showDashboard.published"
    /\ contentArea.view = "dashboard"

\* C20: a legacy hash #page-N keeps the program known by other means.  At
\* startup with a snapshot naming catalog program p, init switches to p with
\* page index N-1; on a history event for an entry without payload whose hash
\* is legacy, while program p is current, p stays the current program and
\* the dashboard is not entered.
C20_LegacyKeepsProgram ==
    [][/\ \A r \in Pending :
             (/\ r.kind = "catalog"
              /\ history[1].url.kind = "legacy"
              /\ stored.programId \in ProgramIds
              /\ CatalogResolves(r))
             => \E q \in BagToSet(inflight') :
                    /\ q.kind = "manifest" /\ Issues(q)
                    /\ q.program = FindProgram(stored.programId)
                    /\ q.pageIndex = history[1].url.page[1].val - 1
       /\ \A j \in {histIdx - 1, histIdx + 1} :
             (/\ j \in DOMAIN history
              /\ history[j].state.kind = "null" /\ history[j].url.kind = "legacy"
              /\ currentProgram # << >>
              /\ PopState(j))
             => /\ currentProgram' = currentProgram
                /\ \A q \in BagToSet(inflight') : q.kind = "dashboard" => ~Issues(q)]_vars

\* The page component is a positive integer in decimal digits.
PositiveInteger(page) ==
    /\ page # << >> /\ page[1] # << >>
    /\ \A k \in DOMAIN page[1] : IsDigit(page[1][k])
    /\ DigitsValue(page[1]) > 0

\* C21: the page index reconciled from a hash is the page number minus one
\* when the page component is a positive integer, and 0 when it is missing,
\* zero, negative or not a number; it is never negative, in the structured
\* and in the legacy form.
C21_PageIndexFromHash ==
    codec.stage = "reconciled" =>
        /\ codec.pageIndex >= 0
        /\ codec.pageIndex = IF PositiveInteger(codec.page)
                              THEN DigitsValue(codec.page[1]) - 1 ELSE 0

\* What is being fetched, without the bookkeeping of the requests.
Fetches(bag) ==
    {[kind |-> r.kind, program |-> r.program, pageIndex |-> r.pageIndex,
      path |-> r.path] : r \in BagToSet(bag)}

C23_StartupFallsBackToDashboard ==
    [][\A r \in Pending :
          (/\ r.kind = "catalog"
           /\ Reconcile(Cur).programId \notin ProgramIds
           /\ CatalogResolves(r))
          => /\ currentProgram' = << >>
             /\ contentArea' = View("loadingDashboard", << >>)
             /\ \E d \in BagToSet(inflight') : d.kind = "dashboard" /\ Issues(d)]_vars

\* C24: when showDashboard() has finished, no program is current, the page
\* index is 0, the module list is empty, the newest history entry is the
\* dashboard entry and the snapshot names no program.
C24_DashboardClearsSession ==
    [][\A d \in Pending :
          (d.kind = "dashboard" /\ DashboardResolves(d))
          => /\ currentProgram' = << >>
             /\ currentPageIndex' = 0
             /\ modules' = << >>
             /\ histIdx' = Len(history')
             /\ history'[histIdx'] = [state |-> StateDashboard, url |-> HashEmpty]
             /\ GetStoredState(stored').programId = Null]_vars

\* The module the page index addresses, when a program is current.
OnModule == currentProgram # << >> /\ currentPageIndex < Len(modules)

CurrentModuleId == modules[currentPageIndex + 1].id

\* The step loads page index of the current program: the page is published
\* at once (cached) or its content is being fetched.
LoadsPage(index) ==
    /\ currentProgram' = currentProgram
    /\ currentPageIndex' = index
    /\ \/ /\ history' = Append(SubSeq(history, 1, histIdx),
                                PageEntry(CurrentId, index))
          /\ histIdx' = histIdx + 1
          /\ stored' = IF storageFull THEN stored
                       ELSE StoredObject(CurrentId, << index >>)
       \/ \E c \in BagToSet(inflight') :
              /\ c.kind = "content" /\ Issues(c)
              /\ c.program = currentProgram /\ c.pageIndex = index

\* The step records the current module as complete and nothing else.
RecordsCurrentModule ==
    /\ IsModuleComplete(progress', CurrentId, CurrentModuleId)
    /\ \A p \in ProgramIds, m \in {"m1", "m2"} :
          << p, m >> # << CurrentId, CurrentModuleId >>
          => Field(progress', p) = Field(progress, p)
             \/ /\ p = CurrentId
                /\ Field(Field(progress', p)[1], m)
                     = IF Field(progress, p) = << >> THEN << >>
                       ELSE Field(Field(progress, p)[1], m)
    /\ progressItem' = IF storageFull THEN progressItem ELSE ProgressJson(progress')

\* C25 as stated: navigateNext on any page i of program p records module i
\* of p as complete.
C25_AdvanceAlwaysRecords ==
    [][(OnModule /\ Quiet /\ CallNavigateNext) => RecordsCurrentModule]_vars

\* C25: navigateNext on page i of program p, when p has a page i+1, records
\* module i of p (not module i+1) as complete and loads page i+1; on the last
\* page it records nothing and loads nothing.  navigatePrevious loads page
\* i-1 when i > 0 and changes nothing when i = 0; it never changes the progress
\* map or its stored copy.
C25_AdvanceRecordsThenLoads ==
    [][/\ (OnModule /\ Quiet /\ CallNavigateNext)
          => IF currentPageIndex < Len(modules) - 1
             THEN /\ RecordsCurrentModule
                  /\ IsModuleComplete(progress', CurrentId,
                                      modules[currentPageIndex + 2].id)
                       = IsModuleComplete(progress, CurrentId,
                                          modules[currentPageIndex + 2].id)
                  /\ LoadsPage(currentPageIndex + 1)
             ELSE UNCHANGED << appVars, progress, progressItem >>
       /\ (OnModule /\ Quiet /\ CallNavigatePrevious)
          => /\ UNCHANGED << progress, progressItem >>
             /\ IF currentPageIndex > 0 THEN LoadsPage(currentPageIndex - 1)
                ELSE UNCHANGED appVars]_vars

\* Moving on from the first page of A has recorded its first module, which
\* had no record, and not the second.
C25_Witness ==
    /\ lastOp = "navigateNext" /\ calls = 1
    /\ CurrentId = "A" /\ currentPageIndex = 1
    /\ Field(progress, "A") # << >>
    /\ Field(Field(progress, "A")[1], "m1") = << ProgressRecord(TRUE, DateNow) >>
    /\ ~IsModuleComplete(progress, "A", "m2")

\* The record of (programId, moduleId) in a progress map: << record >>, or
\* << >> when there is none.
RecordOf(map, programId, moduleId) ==
    IF Field(map, programId) = << >> THEN << >>
    ELSE Field(Field(map, programId)[1], moduleId)

\* Two progress maps have the same records except for (programId, moduleId).
SameRecordsBut(map, other, programId, moduleId) ==
    \A p \in ProgramIds, m \in {"m1", "m2"} :
        << p, m >> # << programId, moduleId >>
        => RecordOf(map, p, m) = RecordOf(other, p, m)

\* C26: from every state and for every (programId, moduleId), a second
\* markModuleComplete changes nothing after the first: the map holds the one
\* record of the pair, completed, every other record is as before, and the
\* stored map is the same map whenever storage accepts the write.  When the
\* toggle is used on a module that is complete, the record is gone from the
\* map (isModuleComplete is false, the key is absent), the other records
\* stay, and the stored map has no record of the module either whenever
\* storage accepts the write.
C26_MarkIsIdempotent ==
    /\ [](\A p \in ProgramIds, m \in {"m1", "m2"} :
            LET once == MarkModuleComplete(Cur, p, m)
                twice == MarkModuleComplete(once, p, m)
            IN  /\ ~MarkModuleCompleteThrows(Cur, p)
                /\ ~MarkModuleCompleteThrows(once, p)
                /\ twice.progress = once.progress
                /\ RecordOf(twice.progress, p, m) = << ProgressRecord(TRUE, DateNow) >>
                /\ IsModuleComplete(twice.progress, p, m)
                /\ SameRecordsBut(twice.progress, progress, p, m)
                /\ ~storageFull => twice.progressItem = ProgressJson(twice.progress)
                /\ OnModule /\ p = CurrentId /\ m = CurrentModuleId
                   => LET undone == ToggleModuleComplete(once)
                      IN  /\ RecordOf(undone.progress, p, m) = << >>
                          /\ ~IsModuleComplete(undone.progress, p, m)
                          /\ SameRecordsBut(undone.progress, progress, p, m)
                          /\ ~storageFull
                             => RecordOf(LoadProgress(undone.progressItem), p, m)
                                  = << >>)
    /\ [][(/\ OnModule
           /\ IsModuleComplete(progress, CurrentId, CurrentModuleId)
           /\ Quiet /\ CallToggleModuleComplete)
          => /\ RecordOf(progress', CurrentId, CurrentModuleId) = << >>
             /\ ~IsModuleComplete(progress', CurrentId, CurrentModuleId)
             /\ SameRecordsBut(progress', progress, CurrentId, CurrentModuleId)
             /\ ~storageFull
                => RecordOf(LoadProgress(progressItem'), CurrentId, CurrentModuleId)
                     = << >>]_vars

\* The last module of A was marked complete with the toggle and then marked
\* incomplete with it: its record is gone from the map and from storage.
C26_Witness ==
    /\ lastOp = "toggle.incomplete" /\ calls = 2
    /\ ~storageFull
    /\ CurrentId = "A" /\ currentPageIndex = 1
    /\ Field(progress, "A") # << >>
    /\ RecordOf(progress, "A", "m2") = << >>
    /\ progressItem = ProgressJson(progress)

\* How many modules of a program the progress map records as complete.
CompletedRecords(map, programId) ==
    Cardinality({m \in {"m1", "m2"} : IsModuleComplete(map, programId, m)})

\* C27: the progress the dashboard gets for each catalog program, whether or
\* not the program's manifest could be fetched: completed is the number of
\* the program's records marked complete, percentage is
\* round(completed / total * 100) for total > 0 and 0 for total = 0, and the
\* dashboard is rendered (nothing is thrown).
C27_ProgramProgress ==
    [][\A r \in Pending, unavailable \in SUBSET {"A", "B"} :
          (r.kind = "dashboard" /\ DashboardResolvesPartly(r, unavailable))
          => /\ contentArea'.view = "dashboard"
             /\ \A n \in DOMAIN Catalog :
                   LET card == contentArea'.content[n]
                   IN  /\ card.completed = CompletedRecords(progress, Catalog[n].id)
                       /\ card.percentage
                            = IF card.total > 0
                              THEN RoundedPercentage(card.completed, card.total)
                              ELSE 0]_vars

\* A state without what is kept in storage, and with the fetches it waits for.
InMemory(st) ==
    [st EXCEPT !.stored = StoredAbsent, !.progressItem = ProgressAbsent,
               !.storageFull = FALSE, !.inflight = Fetches(@)]

\* The same state, with storage accepting writes.
Writable(st) == [st EXCEPT !.storageFull = FALSE]

\* C28: while storage rejects every write: no step changes the stored
\* snapshot or adds to the stored progress map, and none shows an error or
\* throws; navigateNext and the toggle still record or remove the module in
\* the progress map in memory; a page whose content arrives is shown and
\* pushed to the history, and so is the dashboard; and every handler and
\* continuation leaves in memory exactly what it leaves when storage accepts
\* the write.
C28_WriteFailureIsSwallowed ==
    /\ [][storageFull
          => /\ stored' = stored
             /\ progressItem' \in {progressItem, ProgressAbsent}
             /\ contentArea'.view # "error"
             /\ lastOp' \notin {"navigateNext.threw", "toggle.threw",
                                "manifest.renderThrew", "showDashboard.threw"}
             /\ (OnModule /\ Quiet /\ CallNavigateNext
                    /\ currentPageIndex < Len(modules) - 1)
                => /\ RecordOf(progress', CurrentId, CurrentModuleId)
                        = << ProgressRecord(TRUE, DateNow) >>
                   /\ currentPageIndex' = currentPageIndex + 1
             /\ (OnModule /\ Quiet /\ CallToggleModuleComplete)
                => IsModuleComplete(progress', CurrentId, CurrentModuleId)
                     = ~IsModuleComplete(progress, CurrentId, CurrentModuleId)
             /\ \A c \in Pending :
                   (c.kind = "content" /\ ContentResolves(c))
                   => /\ contentArea' = View("page", << ServerFile(c.path) >>)
                      /\ histIdx' = histIdx + 1
                      /\ history' = Append(SubSeq(history, 1, histIdx),
                                           PageEntry(c.program[1].id, c.pageIndex))
             /\ \A d \in Pending :
                   (d.kind = "dashboard" /\ DashboardResolves(d))
                   => /\ contentArea'.view = "dashboard"
                      /\ currentProgram' = << >>
                      /\ histIdx' = histIdx + 1
                      /\ history' = Append(SubSeq(history, 1, histIdx),
                                           [state |-> StateDashboard,
                                            url |-> HashEmpty])]_vars
    /\ [](storageFull
          => /\ \A handler \in {"next", "previous", "toggle", "dashboard"} :
                   LET Run(st) == CASE handler = "next" -> NavigateNext(st)
                                    [] handler = "previous" -> NavigatePrevious(st)
                                    [] handler = "toggle" -> ToggleModuleComplete(st)
                                    [] OTHER -> ShowDashboard(st)
                   IN  InMemory(Run(Start)) = InMemory(Run(Writable(Start)))
             /\ \A i \in PageInputs :
                   InMemory(LoadPage(Start, i)) = InMemory(LoadPage(Writable(Start), i))
             /\ \A r \in Pending :
                   /\ r.kind = "content"
                      => InMemory(ContentLoaded(Cur, r))
                           = InMemory(ContentLoaded(Writable(Cur), r))
                   /\ r.kind = "dashboard"
                      => InMemory(DashboardRendered(Cur, r, {}))
                           = InMemory(DashboardRendered(Writable(Cur), r, {})))

\* Storage rejects every write: moving on from the first page of A has
\* recorded its first module in memory and the second page is shown and
\* pushed, while storage still holds neither a snapshot nor a progress map.
C28_Witness ==
    /\ storageFull
    /\ lastOp = "content.loaded" /\ calls = 1
    /\ RecordOf(progress, "A", "m1") = << ProgressRecord(TRUE, DateNow) >>
    /\ progressItem = ProgressAbsent
    /\ stored = StoredAbsent
    /\ contentArea.view = "page"
    /\ history[histIdx] = PageEntry("A", 1)

\* The state as it would be with an empty progress map in memory.
WithEmptyProgress(st) == [st EXCEPT !.progress = EmptyObject]

\* A state with its progress map read as the set of modules it says are
\* complete.
WithCompleted(st) ==
    [st EXCEPT !.progress =
        {<< p, m >> \in ProgramIds \X {"m1", "m2"} : IsModuleComplete(@, p, m)}]

\* C29: a session started with a snapshot and a progress map that are
\* absent, unparseable or of another shape: the snapshot yields no program
\* and no page, and as long as the progress map is the one loaded at startup
\* every handler and every continuation of a fetch does exactly what it does
\* with an empty progress map, and leaves the same modules complete.
C29_StorageIsTolerated ==
    (/\ progressItem \in StorageRecords
     /\ progress = LoadProgress(progressItem))
    => /\ stored \in StorageSnapshots
          => GetStoredState(stored) = [programId |-> Null, pageIndex |-> << >>]
       /\ \A handler \in {"next", "previous", "toggle"} :
             LET Run(st) == CASE handler = "next" -> NavigateNext(st)
                              [] handler = "previous" -> NavigatePrevious(st)
                              [] OTHER -> ToggleModuleComplete(st)
             IN  WithCompleted(Run(Start))
                   = WithCompleted(Run(WithEmptyProgress(Start)))
       /\ \A r \in Pending :
             /\ r.kind = "manifest"
                => WithCompleted(ManifestLoaded(Cur, r))
                     = WithCompleted(ManifestLoaded(WithEmptyProgress(Cur), r))
             /\ r.kind = "content"
                => WithCompleted(ContentLoaded(Cur, r))
                     = WithCompleted(ContentLoaded(WithEmptyProgress(Cur), r))
             /\ r.kind = "dashboard"
                => WithCompleted(DashboardRendered(Cur, r, {}))
                     = WithCompleted(DashboardRendered(WithEmptyProgress(Cur), r, {}))

\* The catalog fetch of this page load has failed.
CatalogHasFailed == ~programs /\ \A r \in Pending : r.kind # "catalog"

\* C30: only the constructor of a page load issues the catalog fetch, and at
\* most one is pending.  Once it has failed, every step of that page load
\* (a call of loadPage, switchProgram or showDashboard, a history event)
\* leaves the catalog unloaded and no program current, shows neither the
\* dashboard nor a page, pushes nothing to the history and issues no fetch.
C30_CatalogFailureIsFatal ==
    [][/\ \A r \in BagToSet(inflight') :
             r.kind = "catalog"
             => /\ CopiesIn(r, inflight') = 1
                /\ Issues(r) => Reload
       /\ (CatalogHasFailed /\ ~Reload)
          => /\ ~programs'
             /\ currentProgram' = << >>
             /\ modules' = << >>
             /\ contentArea'.view \notin {"dashboard", "page"}
             /\ inflight' = EmptyBag
             /\ UNCHANGED << history, stored >>]_vars

\* After a reload whose catalog fetch failed, the user went back in the
\* history: the handler threw and nothing was loaded.
C30_Witness ==
    /\ CatalogHasFailed
    /\ lastOp \in {"switchProgram.threw", "showDashboard.threw"}
    /\ Len(history) >= 2 /\ histIdx < Len(history)
    /\ inflight = EmptyBag

(***************************************************************************)
(* loadManifest's sort and loadPageContent's lookup, for manifests of up   *)
(* to MaxModules modules whose order values repeat: codec.text is the      *)
(* modules array as the server sent it, codec.pageIndex the index looked   *)
(* up and codec.page the module found there.                               *)
(***************************************************************************)
ModuleIds == << "m1", "m2", "m3", "m4", "m5" >>
ModuleFiles == << "content/one.json", "content/two.json", "content/three.json",
                 "content/four.json", "content/five.json" >>
OrderValues == 1 .. MaxModules

\* The manifests: the n-th module of the array has the n-th id and any order.
ManifestArrays ==
    UNION {{[n \in 1 .. len |-> [id |-> ModuleIds[n], order |-> orders[n],
                                 file |-> ModuleFiles[n]]] :
               orders \in [1 .. len -> OrderValues]} : len \in 0 .. MaxModules}

InitManifest ==
    /\ Constructor({HashEmpty}, {StoredAbsent}, {ProgressAbsent}, {FALSE})
    /\ \E ms \in ManifestArrays :
           codec = [CodecIdle EXCEPT !.stage = "fetched", !.text = ms]

manifestFrame == << programs, currentProgram, contentCache, currentPageIndex,
                    contentArea, history, histIdx, stored, progress, progressItem,
                    storageFull, inflight, lastOp, lastPage, calls >>

\* this.modules = this.manifest.modules.sort((a, b) => a.order - b.order)
SortsModules ==
    /\ codec.stage = "fetched"
    /\ modules' = SortByOrder(codec.text)
    /\ codec' = [codec EXCEPT !.stage = "sorted"]
    /\ UNCHANGED manifestFrame

\* const module = this.modules[moduleIndex]
LooksUpModule(moduleIndex) ==
    /\ codec.stage = "sorted"
    /\ moduleIndex < Len(modules)
    /\ codec' = [codec EXCEPT !.stage = "addressed", !.pageIndex = moduleIndex,
                              !.page = << modules[moduleIndex + 1] >>]
    /\ UNCHANGED modules
    /\ UNCHANGED manifestFrame

NextManifest ==
    \/ SortsModules
    \/ \E moduleIndex \in 0 .. MaxModules : LooksUpModule(moduleIndex)

SpecManifest == InitManifest /\ [][NextManifest]_vars

\* The number of modules of the array that come before its n-th module: the
\* ones of smaller order, and the ones of equal order placed earlier.
Rank(ms, n) ==
    Cardinality({k \in DOMAIN ms :
                    \/ ms[k].order < ms[n].order
                    \/ ms[k].order = ms[n].order /\ k < n})

\* C31: once a manifest is loaded, the active modules are the manifest's
\* modules in ascending order of `order`, modules of equal order in the
\* position the array gave them, and page index k addresses the k-th module of
\* that sequence.
C31_ModulesSortedStably ==
    codec.stage \in {"sorted", "addressed"} =>
        /\ Len(modules) = Len(codec.text)
        /\ \A n \in DOMAIN codec.text : modules[Rank(codec.text, n) + 1] = codec.text[n]
        /\ \A i, j \in DOMAIN modules : i < j => modules[i].order <= modules[j].order
        /\ codec.stage = "addressed" =>
               \E n \in DOMAIN codec.text :
                   /\ Rank(codec.text, n) = codec.pageIndex
                   /\ codec.page = << codec.text[n] >>

\* The second page of a manifest that starts with its largest order and has two
\* modules of equal order after it.
C31_Witness ==
    /\ codec.stage = "addressed"
    /\ codec.pageIndex = 1
    /\ Len(codec.text) = 3
    /\ codec.text[1].order > codec.text[2].order
    /\ codec.text[2].order = codec.text[3].order
    /\ codec.page = << codec.text[3] >>

(***************************************************************************)
(* SpecRefetch: the manifest of program A is edited on the server while    *)
(* the application runs (a module is added, as the README describes);      *)
(* codec.pageIndex is the edition the server holds.  Handlers are called   *)
(* only when nothing is pending.                                           *)
(***************************************************************************)
ManifestEdition(path, edition) ==
    IF edition = 1 \/ path # <<"programs", "A", "manifest.json">>
    THEN ServerManifest(path)
    ELSE Append(ServerManifest(path),
                [id |-> "m3", order |-> 3, file |-> "content/three.json"])

InitRefetch ==
    /\ Constructor({HashEmpty}, {StoredAbsent}, {ProgressAbsent}, {FALSE})
    /\ codec = [CodecIdle EXCEPT !.stage = "serving", !.pageIndex = 1]

\* The author adds the module to the manifest, or removes it again.
ServerUpdates ==
    /\ codec' = [codec EXCEPT !.pageIndex = 3 - @]
    /\ UNCHANGED appFrame

\* The manifest fetch of r is answered with the edition the server holds.
ManifestAnswers(r) ==
    /\ r.kind = "manifest"
    /\ r.path \in ManifestPaths
    /\ Step(ManifestLoadedWith(Cur, r, ManifestEdition(r.path, codec.pageIndex)))

RefetchPrograms == {"A", "B"}

NextRefetch ==
    \/ \E p \in RefetchPrograms : Quiet /\ CallSwitchProgram(p, 0)
    \/ Quiet /\ CallShowDashboard
    \/ ServerUpdates
    \/ \E r \in Pending : CatalogResolves(r)
    \/ \E r \in Pending : ManifestAnswers(r)
    \/ \E r \in Pending : ManifestFails(r)
    \/ \E r \in Pending : ContentResolves(r)
    \/ \E r \in Pending : ContentFails(r)
    \/ \E r \in Pending : DashboardResolves(r)

SpecRefetch == InitRefetch /\ [][NextRefetch]_vars

\* C32: manifests are not cached.  Every switchProgram(p) for a program of the
\* catalog issues a fetch of p's manifest, also when p is the current program
\* or was loaded before, and when that fetch is answered the modules become
\* the answer's modules (sorted), whatever was loaded before.
C32_ManifestsNotCached ==
    [][/\ \A p \in RefetchPrograms :
              CallSwitchProgram(p, 0) =>
                  \E r \in BagToSet(inflight') :
                      /\ r.kind = "manifest"
                      /\ r.program = FindProgram(p)
                      /\ r.path = FindProgram(p)[1].manifest
                      /\ Issues(r)
       /\ \A r \in Pending :
              ManifestAnswers(r) =>
                  modules' = SortByOrder(ManifestEdition(r.path, codec.pageIndex))]_vars

\* Program A is current with the modules of the first edition, the server
\* holds the second edition, and switchProgram(A) has been called again: its
\* manifest fetch is pending.
C32_Witness ==
    /\ codec.pageIndex = 2
    /\ CurrentId = "A"
    /\ modules = SortedManifest(FindProgram("A")[1])
    /\ \E r \in Pending :
           /\ r.kind = "manifest"
           /\ r.program = FindProgram("A")
           /\ r.pre.currentProgram = FindProgram("A")
           /\ r.pre.modules = modules

\* C33: a manifest or content fetch that fails inside switchProgram, loadPage
\* or the popstate handler is surfaced: the failing step ends with the error
\* view shown, whoever called the operation.
C33_FetchFailureIsSurfaced ==
    [][\A r \in Pending :
          (ManifestFails(r) \/ ContentFails(r)) => contentArea'.view = "error"]_vars

\* The content fetches the step issues.
NewContentFetches == {r \in BagToSet(inflight') : r.kind = "content" /\ Issues(r)}

\* C34: content is loaded lazily.  A step issues at most one content fetch,
\* and only for the page it navigates to: the module at the new page index of
\* the current program, not cached yet.  The steps that start the session,
\* call switchProgram or show the dashboard issue none.
C34_ContentIsLazy ==
    [][/\ Cardinality(NewContentFetches) <= 1
       /\ \A r \in NewContentFetches :
              /\ CopiesIn(r, inflight') = CopiesIn(r, inflight) + 1
              /\ currentProgram' # << >>
              /\ r.pageIndex = currentPageIndex'
              /\ r.pageIndex \in 0 .. Len(modules') - 1
              /\ r.key = CacheKey(currentProgram'[1], modules'[r.pageIndex + 1])
              /\ r.path = ContentPath(currentProgram'[1], modules'[r.pageIndex + 1])
              /\ r.key \notin DOMAIN contentCache'
       /\ (\/ CallShowDashboard
           \/ \E p \in StartupPrograms, i \in PageInputs : CallSwitchProgram(p, i)
           \/ \E r \in Pending : CatalogResolves(r) \/ DashboardResolves(r))
          => NewContentFetches = {}]_vars

\* The second page of program A is being fetched and no other page has been:
\* the cache is empty.
C34_Witness ==
    /\ CurrentId = "A"
    /\ currentPageIndex = 1
    /\ DOMAIN contentCache = {}
    /\ \E r \in Pending : r.kind = "content" /\ r.pageIndex = 1
    /\ PendingCount = 1

(***************************************************************************)
(* SpecOverlap: handlers are called while fetches are pending.  The page   *)
(* is opened on program A; the user loads pages, advances, toggles and     *)
(* switches programs without waiting.                                      *)
(***************************************************************************)
OverlapHashes == {HashParams("A", << >>), HashParams("A", << PageText(2) >>)}

InitOverlap ==
    /\ Constructor(OverlapHashes, {StoredAbsent}, {ProgressAbsent}, {FALSE})
    /\ codec = CodecIdle

OverlapPages == 0 .. 1
OverlapPrograms == {"A", "B"}

NextOverlap ==
    \/ \E i \in OverlapPages : CallLoadPage(i)
    \/ \E p \in OverlapPrograms : CallSwitchProgram(p, 0)
    \/ CallNavigateNext
    \/ CallToggleModuleComplete
    \/ \E r \in Pending : CatalogResolves(r)
    \/ \E r \in Pending : ManifestResolves(r)
    \/ \E r \in Pending : ManifestFails(r)
    \/ \E r \in Pending : ContentResolves(r)
    \/ \E r \in Pending : ContentFails(r)

SpecOverlap == InitOverlap /\ [][NextOverlap]_vars

\* C35: overlapping requests for a page that is not cached are not joined:
\* loadPage(i) issues a fetch of its own also while a fetch for the same key is
\* pending.  Each fetch that succeeds stores the file under its key, so that
\* after both the cache has the one entry for the key, with the file.
C35_OverlappingFetchesConverge ==
    [][/\ \A i \in OverlapPages :
              (/\ CallLoadPage(i)
               /\ i < Len(modules)
               /\ currentProgram # << >>
               /\ CacheKey(currentProgram[1], modules[i + 1]) \notin DOMAIN contentCache)
              => \E r \in BagToSet(inflight') :
                     /\ r.kind = "content"
                     /\ r.key = CacheKey(currentProgram[1], modules[i + 1])
                     /\ CopiesIn(r, inflight') = CopiesIn(r, inflight) + 1
       /\ \A r \in Pending :
              ContentResolves(r) =>
                  /\ DOMAIN contentCache' = DOMAIN contentCache \cup {r.key}
                  /\ contentCache'[r.key] = ServerFile(r.path)
                  /\ \A k \in DOMAIN contentCache \ {r.key} :
                         contentCache'[k] = contentCache[k]]_vars

\* Two fetches for one key were pending together; one has been answered and
\* its file is cached, the other is still pending.
C35_Witness ==
    \E r \in Pending :
        /\ r.kind = "content"
        /\ r.key \in DOMAIN contentCache
        /\ contentCache[r.key] = ServerFile(r.path)

\* C36: a history event restores the state of its entry and leaves the
\* history stack as it is: the step that handles Back or Forward to entry j
\* changes no entry and leaves j the current entry, so that Forward after Back
\* returns to the entry left and repeated Back reaches the first entry.
C36_HistoryEventKeepsStack ==
    [][\A j \in {histIdx - 1, histIdx + 1} :
          PopState(j) => history' = history /\ histIdx' = j]_vars

\* The module ids of a catalog program's manifest.
ManifestModuleIds(programId) ==
    LET ms == ServerManifest(FindProgram(programId)[1].manifest)
    IN  {ms[k].id : k \in DOMAIN ms}

\* C37: every record of the progress map is keyed by a catalog program and by
\* a module of that program's manifest, however loadPage, navigateNext, the
\* toggle and switchProgram interleave.
C37_RecordsBelongToProgram ==
    \A p \in DOMAIN progress.fields :
        /\ p \in ProgramIds
        /\ \A m \in DOMAIN progress.fields[p].fields : m \in ManifestModuleIds(p)

(***************************************************************************)
(* SpecLive: the page is opened on program A; loadPage, switchProgram and  *)
(* showDashboard are called while fetches are pending, and every pending   *)
(* fetch is eventually answered or fails.                                  *)
(***************************************************************************)
\* A pending fetch is answered or fails and its continuation runs.
Settling ==
    \E r \in Pending :
        \/ CatalogFails(r) \/ ManifestFails(r) \/ ContentFails(r)
        \/ CatalogResolves(r) \/ ManifestResolves(r) \/ ContentResolves(r)
        \/ DashboardResolves(r)

InitLive ==
    /\ Constructor({HashParams("A", << >>)}, {StoredAbsent}, {ProgressAbsent}, {FALSE})
    /\ codec = CodecIdle

NextLive ==
    \/ \E i \in OverlapPages : CallLoadPage(i)
    \/ \E p \in OverlapPrograms : CallSwitchProgram(p, 0)
    \/ CallShowDashboard
    \/ Settling

SpecLive == InitLive /\ [][NextLive]_vars /\ WF_vars(Settling)

\* C38: when every fetch issued is eventually answered or fails, every request
\* completes: again and again no fetch is pending, and once the calls stop it
\* stays so.
C38_RequestsComplete == []<>Quiet

\* Two handlers have been called after startup and every fetch they issued
\* has been answered: nothing is pending and the last page is published.
C38_Witness ==
    /\ Quiet
    /\ calls = 2
    /\ lastPage = "published"
    /\ Len(history) > 2

(***************************************************************************)
(* Resuming from the dashboard.                                            *)
(***************************************************************************)
\* getNextIncompleteModule(programId), for a progress map that is not null
GetNextIncompleteModule(st, programId) ==
    LET incomplete == {i \in 0 .. Len(st.modules) - 1 :
                          ~IsModuleComplete(st.progress, programId, st.modules[i + 1].id)}
    IN  IF incomplete = {} THEN 0
        ELSE CHOOSE i \in incomplete : \A k \in incomplete : i <= k

\* A click on a program card or on its Resume button, up to
\* `await this.loadManifest(program.manifest)`.
ResumeProgram(st, programId) ==
    LET program == FindProgram(programId)
    IN  IF program = << >> THEN Done(st, "resume.unknown")
        ELSE Await(Done(st, "resume.loading"),
                   Request("resume", program, 0, << >>, program[1].manifest,
                           "resume", Snapshot(st)))

\* The manifest the click handler asked for has arrived: loadManifest sorts
\* the modules, getNextIncompleteModule reads them (a TypeError in
\* isModuleComplete when this.progress is null), and switchProgram is called
\* with the index found.
ResumeManifestLoaded(st, r) ==
    LET s1 == [Settle(st, r) EXCEPT !.modules = SortByOrder(ServerManifest(r.path)),
                                    !.lastPage = "none"]
    IN  IF s1.modules # << >> /\ s1.progress.kind = "null"
        THEN Done(s1, "resume.threw")
        ELSE SwitchProgram(s1, r.program[1].id,
                           GetNextIncompleteModule(s1, r.program[1].id), "resume")

(***************************************************************************)
(* SpecResume: the dashboard's cards are clicked, with progress of earlier *)
(* sessions in storage.  Handlers are called only when nothing is pending. *)
(***************************************************************************)
ResumeItems ==
    ProgressItems \cup {EarlierRecords({"m1", "m2"}, [m \in {"m1", "m2"} |-> TRUE])}

InitResume ==
    /\ Constructor(ProgressHashes, {StoredAbsent}, ResumeItems, {FALSE})
    /\ codec = CodecIdle

\* A program card of the dashboard, or its Resume button
CallResumeProgram(programId) ==
    /\ contentArea.view = "dashboard"
    /\ Call(ResumeProgram(Start, programId))

ResumeManifestResolves(r) ==
    /\ r.kind = "resume"
    /\ Step(ResumeManifestLoaded(Cur, r))

NextResume ==
    \/ \E p \in ProgramIds : Quiet /\ CallResumeProgram(p)
    \/ Quiet /\ CallShowDashboard
    \/ \E r \in Pending : CatalogResolves(r)
    \/ \E r \in Pending : ResumeManifestResolves(r)
    \/ \E r \in Pending : ManifestResolves(r)
    \/ \E r \in Pending : ContentResolves(r)
    \/ \E r \in Pending : DashboardResolves(r)

SpecResume == InitResume /\ [][NextResume]_vars

\* The index of the first module of the program's sorted manifest that the
\* map does not record as complete; 0 when there is none.
FirstUnfinished(program, map) ==
    LET ms == SortedManifest(program)
        unfinished == {k \in DOMAIN ms : ~IsModuleComplete(map, program.id, ms[k].id)}
    IN  IF unfinished = {} THEN 0
        ELSE (CHOOSE k \in unfinished : \A n \in unfinished : k <= n) - 1

\* C39: a resume of catalog program p whose fetches succeed makes p the current
\* program on page j, the first module of p's sorted manifest that is not
\* complete, or 0 when all are complete or the manifest is empty.
C39_ResumeLandsOnFirstUnfinished ==
    [][\A r \in Pending :
          (r.kind = "manifest" /\ r.origin = "resume" /\ ManifestResolves(r))
          => /\ CurrentId' = r.program[1].id
             /\ modules' = SortedManifest(r.program[1])
             /\ currentPageIndex' = FirstUnfinished(r.program[1], progress)]_vars

\* C40: the toggle acts on the module at the page index of the current
\* program.  A complete module loses its record and its page is loaded again,
\* the page index unchanged; a module that is not complete is recorded as
\* complete and the next page is loaded, unless it is the last module: then
\* the page index, the history and the snapshot stay and nothing is fetched.
\* No other record changes.  With no current program or no module at the page
\* index the toggle changes nothing.
C40_ToggleActsOnCurrentModule ==
    [][(Quiet /\ CallToggleModuleComplete)
       => IF ~OnModule THEN UNCHANGED << appVars, progress, progressItem >>
          ELSE /\ SameRecordsBut(progress', progress, CurrentId, CurrentModuleId)
               /\ UNCHANGED << currentProgram, modules >>
               /\ IF IsModuleComplete(progress, CurrentId, CurrentModuleId)
                  THEN /\ RecordOf(progress', CurrentId, CurrentModuleId) = << >>
                       /\ LoadsPage(currentPageIndex)
                  ELSE /\ IsModuleComplete(progress', CurrentId, CurrentModuleId)
                       /\ IF currentPageIndex = Len(modules) - 1
                          THEN UNCHANGED << currentPageIndex, history, histIdx,
                                            stored, inflight, contentCache >>
                          ELSE LoadsPage(currentPageIndex + 1)]_vars

\* The toggle was used on the first page of A, which was not complete, and
\* then on the second and last one: both are recorded, the page index is
\* still 1 and the newest history entry is the one of page 2.
C40_Witness ==
    /\ lastOp = "toggle.completed" /\ calls = 2
    /\ CurrentId = "A" /\ currentPageIndex = 1
    /\ IsModuleComplete(progress, "A", "m1")
    /\ IsModuleComplete(progress, "A", "m2")
    /\ history[histIdx] = PageEntry("A", 1)

====
